---- MODULE Spec2Model ----
(***************************************************************************)
(* HTTP Capsule Protocol codec (quiche/common/capsule.cc): the capsule     *)
(* serializer and the streaming CapsuleParser, with the visitor's view of  *)
(* the callbacks the parser makes.                                         *)
(*                                                                         *)
(* Byte strings (std::string, absl::string_view) are kept run-length       *)
(* encoded: a sequence of runs <<byte, count>>, count >= 1, adjacent runs  *)
(* holding different bytes.  This is only a representation of the byte     *)
(* sequence; it lets the buffer reach the real 1 MiB limit.                *)
(* 64-bit integers are 8-tuples of bytes, most significant first; 32-bit   *)
(* integers are pairs <<high 16 bits, low 16 bits>>.                       *)
(***************************************************************************)
EXTENDS Integers, Sequences, FiniteSets, TLC

----------------------------------------------------------------------------
(* Byte strings *)

\* Binds the value of v once and hands it to F.
Let(v, F(_)) == CHOOSE r \in { F(x) : x \in {v} } : TRUE

Run(b, n) == IF n = 0 THEN <<>> ELSE << <<b, n>> >>

RECURSIVE size(_)
size(s) == IF s = <<>> THEN 0 ELSE s[1][2] + size(Tail(s))

StrAppend(a, b) ==
  IF a = <<>> THEN b
  ELSE IF b = <<>> THEN a
  ELSE IF a[Len(a)][1] = b[1][1]
       THEN SubSeq(a, 1, Len(a) - 1)
              \o << <<b[1][1], a[Len(a)][2] + b[1][2]>> >> \o Tail(b)
       ELSE a \o b

RECURSIVE erase(_, _)
erase(s, n) ==
  IF n = 0 \/ s = <<>> THEN s
  ELSE IF s[1][2] <= n THEN erase(Tail(s), n - s[1][2])
  ELSE << <<s[1][1], s[1][2] - n>> >> \o Tail(s)

RECURSIVE prefix(_, _)
prefix(s, n) ==
  IF n = 0 \/ s = <<>> THEN <<>>
  ELSE IF s[1][2] <= n THEN <<s[1]>> \o prefix(Tail(s), n - s[1][2])
  ELSE << <<s[1][1], n>> >>

substr(s, pos, n) == prefix(erase(s, pos), n)

RECURSIVE at(_, _)
at(s, i) == IF i < s[1][2] THEN s[1][1] ELSE at(Tail(s), i - s[1][2])

RECURSIVE Bytes(_)
Bytes(l) == IF l = <<>> THEN <<>> ELSE StrAppend(Run(l[1], 1), Bytes(Tail(l)))

----------------------------------------------------------------------------
(* 64-bit and 32-bit integers *)

U64(n) == <<0, 0, 0, 0, n \div 16777216, (n \div 65536) % 256,
            (n \div 256) % 256, n % 256>>

FitsInt(v) == v[1] = 0 /\ v[2] = 0 /\ v[3] = 0 /\ v[4] = 0 /\ v[5] < 128

ToInt(v) == ((v[5] * 256 + v[6]) * 256 + v[7]) * 256 + v[8]

----------------------------------------------------------------------------
(* QuicheDataReader: a byte string and a cursor *)

QuicheDataReader(data) == [data |-> data, pos |-> 0]

BytesRemaining(r) == size(r.data) - r.pos

IsDoneReading(r) == BytesRemaining(r) = 0

ReadUInt8(r) ==
  IF BytesRemaining(r) < 1
  THEN [ok |-> FALSE, value |-> 0, reader |-> r]
  ELSE [ok |-> TRUE, value |-> at(r.data, r.pos),
        reader |-> [r EXCEPT !.pos = @ + 1]]

ReadUInt32(r) ==
  IF BytesRemaining(r) < 4
  THEN [ok |-> FALSE, value |-> <<0, 0>>, reader |-> r]
  ELSE [ok |-> TRUE,
        value |-> << at(r.data, r.pos) * 256 + at(r.data, r.pos + 1),
                     at(r.data, r.pos + 2) * 256 + at(r.data, r.pos + 3) >>,
        reader |-> [r EXCEPT !.pos = @ + 4]]

VarIntLenOfFirstByte(b) ==
  CASE b \div 64 = 0 -> 1
    [] b \div 64 = 1 -> 2
    [] b \div 64 = 2 -> 4
    [] b \div 64 = 3 -> 8

ReadVarInt62(r) ==
  IF BytesRemaining(r) < 1
  THEN [ok |-> FALSE, value |-> U64(0), reader |-> r]
  ELSE LET b0 == at(r.data, r.pos)
           n  == VarIntLenOfFirstByte(b0)
       IN IF BytesRemaining(r) < n
          THEN [ok |-> FALSE, value |-> U64(0), reader |-> r]
          ELSE [ok |-> TRUE,
                value |-> [i \in 1..8 |->
                             IF i < 9 - n THEN 0
                             ELSE IF i = 9 - n THEN b0 % 64
                             ELSE at(r.data, r.pos + (i - (9 - n)))],
                reader |-> [r EXCEPT !.pos = @ + n]]

ReadStringPiece(r, n) ==
  IF BytesRemaining(r) < n
  THEN [ok |-> FALSE, value |-> <<>>, reader |-> r]
  ELSE [ok |-> TRUE, value |-> substr(r.data, r.pos, n),
        reader |-> [r EXCEPT !.pos = @ + n]]

ReadStringPieceVarInt62(r) ==
  Let(ReadVarInt62(r), LAMBDA l :
  IF ~l.ok \/ ~FitsInt(l.value)
  THEN [ok |-> FALSE, value |-> <<>>, reader |-> r]
  ELSE Let(ReadStringPiece(l.reader, ToInt(l.value)), LAMBDA p :
       IF p.ok THEN p ELSE [ok |-> FALSE, value |-> <<>>, reader |-> r]))

ReadRemainingPayload(r) ==
  [value |-> erase(r.data, r.pos), reader |-> [r EXCEPT !.pos = size(r.data)]]

PreviouslyReadPayload(r) == prefix(r.data, r.pos)

----------------------------------------------------------------------------
(* QuicheDataWriter and the wire schema elements (wire_serialization.h).   *)
(* A wire element is [length, ok, bytes]: its length on wire, whether      *)
(* writing it succeeds, and the bytes it writes.                           *)

GetVarInt62Len(v) ==
  IF v[1] >= 64 THEN 0
  ELSE IF v[1] # 0 \/ v[2] # 0 \/ v[3] # 0 \/ v[4] # 0 \/ v[5] >= 64 THEN 8
  ELSE IF v[5] # 0 \/ v[6] # 0 \/ v[7] >= 64 THEN 4
  ELSE IF v[7] # 0 \/ v[8] >= 64 THEN 2
  ELSE 1

WriteVarInt62(v) ==
  LET n == GetVarInt62Len(v)
      tag == CASE n = 1 -> 0 [] n = 2 -> 64 [] n = 4 -> 128 [] n = 8 -> 192
                  [] OTHER -> 0
  IN IF n = 0 THEN [ok |-> FALSE, bytes |-> <<>>]
     ELSE [ok |-> TRUE,
           bytes |-> Bytes([i \in 1..n |->
                              IF i = 1 THEN v[9 - n] + tag ELSE v[8 - n + i]])]

WireVarInt62(v) ==
  [length |-> GetVarInt62Len(v), ok |-> WriteVarInt62(v).ok,
   bytes |-> WriteVarInt62(v).bytes]

WireUint8(b) == [length |-> 1, ok |-> TRUE, bytes |-> Run(b, 1)]

WireUint32(w) ==
  [length |-> 4, ok |-> TRUE,
   bytes |-> Bytes(<<w[1] \div 256, w[1] % 256, w[2] \div 256, w[2] % 256>>)]

WireBytes(b) == [length |-> size(b), ok |-> TRUE, bytes |-> b]

RECURSIVE ComputeLengthOnWire(_)
ComputeLengthOnWire(fields) ==
  IF fields = <<>> THEN 0
  ELSE fields[1].length + ComputeLengthOnWire(Tail(fields))

\* Writes the fields in order and stops at the first one that fails.
RECURSIVE SerializeIntoWriter(_)
SerializeIntoWriter(fields) ==
  IF fields = <<>> THEN [ok |-> TRUE, bytes |-> <<>>]
  ELSE IF ~fields[1].ok THEN [ok |-> FALSE, bytes |-> <<>>]
  ELSE LET rest == SerializeIntoWriter(Tail(fields))
       IN [ok |-> rest.ok, bytes |-> StrAppend(fields[1].bytes, rest.bytes)]

\* Allocates exactly the computed length; fails when a field fails or the
\* bytes written do not fill the buffer exactly.
SerializeIntoBuffer(fields) ==
  LET buffer_size == ComputeLengthOnWire(fields)
      w == SerializeIntoWriter(fields)
  IN IF w.ok /\ size(w.bytes) = buffer_size
     THEN [ok |-> TRUE, buffer |-> w.bytes]
     ELSE [ok |-> FALSE, buffer |-> <<>>]

----------------------------------------------------------------------------
(* QuicheIpAddress and QuicheIpPrefix (quiche_ip_address.h) *)

kIPv4AddressSize == 4
kIPv6AddressSize == 16

IpUnspec == [family |-> "IP_UNSPEC", packed |-> <<>>]

FromPackedString(data, length) ==
  IF length = kIPv4AddressSize
  THEN [ok |-> TRUE, address |-> [family |-> "IP_V4", packed |-> data]]
  ELSE IF length = kIPv6AddressSize
  THEN [ok |-> TRUE, address |-> [family |-> "IP_V6", packed |-> data]]
  ELSE [ok |-> FALSE, address |-> IpUnspec]

IsIPv4(a) == a.family = "IP_V4"

IsIPv6(a) == a.family = "IP_V6"

ToPackedString(a) == a.packed

QuicheIpPrefixOf(a) ==
  [address |-> a,
   prefix_length |-> IF IsIPv4(a) THEN 32 ELSE IF IsIPv6(a) THEN 128 ELSE 0]

QuicheIpPrefix(a, prefix_length) ==
  [address |-> a, prefix_length |-> prefix_length]

----------------------------------------------------------------------------
(* CapsuleType and Capsule *)

DATAGRAM == U64(0)
LEGACY_DATAGRAM == <<0, 0, 0, 0, 0, 255, 55, 160>>
LEGACY_DATAGRAM_WITHOUT_CONTEXT == <<0, 0, 0, 0, 0, 255, 55, 165>>
CLOSE_WEBTRANSPORT_SESSION == <<0, 0, 0, 0, 0, 0, 40, 67>>
ADDRESS_REQUEST == <<0, 0, 0, 0, 158, 202, 106, 0>>
ADDRESS_ASSIGN == <<0, 0, 0, 0, 158, 202, 106, 1>>
ROUTE_ADVERTISEMENT == <<0, 0, 0, 0, 158, 202, 106, 2>>

KnownTypes ==
  {DATAGRAM, LEGACY_DATAGRAM, LEGACY_DATAGRAM_WITHOUT_CONTEXT,
   CLOSE_WEBTRANSPORT_SESSION, ADDRESS_REQUEST, ADDRESS_ASSIGN,
   ROUTE_ADVERTISEMENT}

\* Capsule::Capsule(CapsuleType): the variant's fields, default-initialised.
Capsule(capsule_type) ==
  CASE capsule_type = DATAGRAM ->
         [capsule_type |-> capsule_type, http_datagram_payload |-> <<>>]
    [] capsule_type = LEGACY_DATAGRAM ->
         [capsule_type |-> capsule_type, http_datagram_payload |-> <<>>]
    [] capsule_type = LEGACY_DATAGRAM_WITHOUT_CONTEXT ->
         [capsule_type |-> capsule_type, http_datagram_payload |-> <<>>]
    [] capsule_type = CLOSE_WEBTRANSPORT_SESSION ->
         [capsule_type |-> capsule_type, error_code |-> <<0, 0>>,
          error_message |-> <<>>]
    [] capsule_type = ADDRESS_REQUEST ->
         [capsule_type |-> capsule_type, requested_addresses |-> <<>>]
    [] capsule_type = ADDRESS_ASSIGN ->
         [capsule_type |-> capsule_type, assigned_addresses |-> <<>>]
    [] capsule_type = ROUTE_ADVERTISEMENT ->
         [capsule_type |-> capsule_type, ip_address_ranges |-> <<>>]
    [] OTHER ->
         [capsule_type |-> capsule_type, unknown_capsule_data |-> <<>>]

Datagram(payload) ==
  [Capsule(DATAGRAM) EXCEPT !.http_datagram_payload = payload]

LegacyDatagram(payload) ==
  [Capsule(LEGACY_DATAGRAM) EXCEPT !.http_datagram_payload = payload]

LegacyDatagramWithoutContext(payload) ==
  [Capsule(LEGACY_DATAGRAM_WITHOUT_CONTEXT)
     EXCEPT !.http_datagram_payload = payload]

CloseWebTransportSession(error_code, error_message) ==
  [Capsule(CLOSE_WEBTRANSPORT_SESSION)
     EXCEPT !.error_code = error_code, !.error_message = error_message]

AddressRequest(addresses) ==
  [Capsule(ADDRESS_REQUEST) EXCEPT !.requested_addresses = addresses]

AddressAssign(addresses) ==
  [Capsule(ADDRESS_ASSIGN) EXCEPT !.assigned_addresses = addresses]

RouteAdvertisement(ranges) ==
  [Capsule(ROUTE_ADVERTISEMENT) EXCEPT !.ip_address_ranges = ranges]

Unknown(capsule_type, data) ==
  [Capsule(capsule_type) EXCEPT !.unknown_capsule_data = data]

----------------------------------------------------------------------------
(* Equality of capsules *)

\* PrefixWithId::operator==
PrefixWithIdEquals(this, other) ==
  this.request_id = other.request_id /\ this.ip_prefix = other.ip_prefix

\* IpAddressRange::operator==
IpAddressRangeEquals(this, other) ==
  /\ this.start_ip_address = other.start_ip_address
  /\ this.end_ip_address = other.end_ip_address
  /\ this.ip_protocol = other.ip_protocol

\* operator== of two std::vector<PrefixWithId>: the same size and equal
\* element by element.
PrefixWithIdVectorEquals(a, b) ==
  Len(a) = Len(b) /\ \A i \in 1..Len(a) : PrefixWithIdEquals(a[i], b[i])

\* operator== of two std::vector<IpAddressRange>.
IpAddressRangeVectorEquals(a, b) ==
  Len(a) = Len(b) /\ \A i \in 1..Len(a) : IpAddressRangeEquals(a[i], b[i])

\* Mutant: two CLOSE_WEBTRANSPORT_SESSION capsules are compared by their
\* error code alone.
CapsuleEquals_CodeOnly(this, other) ==
  IF this.capsule_type # other.capsule_type THEN FALSE
  ELSE CASE this.capsule_type = DATAGRAM ->
              this.http_datagram_payload = other.http_datagram_payload
         [] this.capsule_type = LEGACY_DATAGRAM ->
              this.http_datagram_payload = other.http_datagram_payload
         [] this.capsule_type = LEGACY_DATAGRAM_WITHOUT_CONTEXT ->
              this.http_datagram_payload = other.http_datagram_payload
         [] this.capsule_type = CLOSE_WEBTRANSPORT_SESSION ->
              this.error_code = other.error_code
         [] this.capsule_type = ADDRESS_REQUEST ->
              PrefixWithIdVectorEquals(this.requested_addresses,
                                       other.requested_addresses)
         [] this.capsule_type = ADDRESS_ASSIGN ->
              PrefixWithIdVectorEquals(this.assigned_addresses,
                                       other.assigned_addresses)
         [] this.capsule_type = ROUTE_ADVERTISEMENT ->
              IpAddressRangeVectorEquals(this.ip_address_ranges,
                                         other.ip_address_ranges)
         [] OTHER ->
              this.unknown_capsule_data = other.unknown_capsule_data

\* Capsule::operator==
CapsuleEquals(this, other) ==
  IF this.capsule_type # other.capsule_type THEN FALSE
  ELSE CASE this.capsule_type = DATAGRAM ->
              this.http_datagram_payload = other.http_datagram_payload
         [] this.capsule_type = LEGACY_DATAGRAM ->
              this.http_datagram_payload = other.http_datagram_payload
         [] this.capsule_type = LEGACY_DATAGRAM_WITHOUT_CONTEXT ->
              this.http_datagram_payload = other.http_datagram_payload
         [] this.capsule_type = CLOSE_WEBTRANSPORT_SESSION ->
              /\ this.error_code = other.error_code
              /\ this.error_message = other.error_message
         [] this.capsule_type = ADDRESS_REQUEST ->
              PrefixWithIdVectorEquals(this.requested_addresses,
                                       other.requested_addresses)
         [] this.capsule_type = ADDRESS_ASSIGN ->
              PrefixWithIdVectorEquals(this.assigned_addresses,
                                       other.assigned_addresses)
         [] this.capsule_type = ROUTE_ADVERTISEMENT ->
              IpAddressRangeVectorEquals(this.ip_address_ranges,
                                         other.ip_address_ranges)
         [] OTHER ->
              this.unknown_capsule_data = other.unknown_capsule_data

----------------------------------------------------------------------------
(* Copying of capsules *)

\* Capsule::Free: what the capsule holds after it; the heap object of an
\* ADDRESS_REQUEST, ADDRESS_ASSIGN or ROUTE_ADVERTISEMENT capsule is deleted.
Free(this) == [capsule_type |-> U64(23), unknown_capsule_data |-> <<>>]

\* The switch of Capsule::operator=: the fields of `other`, whose type the
\* capsule has taken.
CopyFields(other) ==
  CASE other.capsule_type = DATAGRAM ->
         [capsule_type |-> other.capsule_type,
          http_datagram_payload |-> other.http_datagram_payload]
    [] other.capsule_type = LEGACY_DATAGRAM ->
         [capsule_type |-> other.capsule_type,
          http_datagram_payload |-> other.http_datagram_payload]
    [] other.capsule_type = LEGACY_DATAGRAM_WITHOUT_CONTEXT ->
         [capsule_type |-> other.capsule_type,
          http_datagram_payload |-> other.http_datagram_payload]
    [] other.capsule_type = CLOSE_WEBTRANSPORT_SESSION ->
         [capsule_type |-> other.capsule_type,
          error_code |-> other.error_code,
          error_message |-> other.error_message]
    [] other.capsule_type = ADDRESS_ASSIGN ->
         [capsule_type |-> other.capsule_type,
          assigned_addresses |-> other.assigned_addresses]
    [] other.capsule_type = ADDRESS_REQUEST ->
         [capsule_type |-> other.capsule_type,
          requested_addresses |-> other.requested_addresses]
    [] other.capsule_type = ROUTE_ADVERTISEMENT ->
         [capsule_type |-> other.capsule_type,
          ip_address_ranges |-> other.ip_address_ranges]
    [] OTHER ->
         [capsule_type |-> other.capsule_type,
          unknown_capsule_data |-> other.unknown_capsule_data]

\* Capsule::operator=, `this = other`: the two capsules after it.
\* `same_object` tells that `other` is the capsule assigned to, which Free()
\* has then changed before the type and the fields are read from it.
CapsuleAssign(this, other, same_object) ==
  LET freed == Free(this)
      source == IF same_object THEN freed ELSE other
  IN [this |-> CopyFields(source),
      other |-> IF same_object THEN CopyFields(source) ELSE other]

\* Capsule::Capsule(const Capsule&)
CapsuleCopy(other) ==
  CapsuleAssign(Capsule(other.capsule_type), other, FALSE).this

----------------------------------------------------------------------------
(* Serialization *)

\* Mutant: the prefix length is written before the address.
WirePrefixWithId_LengthFirst(p) ==
  LET fields == << WireVarInt62(p.request_id),
                   WireUint8(IF IsIPv4(p.ip_prefix.address) THEN 4 ELSE 6),
                   WireUint8(p.ip_prefix.prefix_length),
                   WireBytes(ToPackedString(p.ip_prefix.address)) >>
      w == SerializeIntoWriter(fields)
  IN [length |-> ComputeLengthOnWire(fields), ok |-> w.ok, bytes |-> w.bytes]

WirePrefixWithId(p) ==
  LET fields == << WireVarInt62(p.request_id),
                   WireUint8(IF IsIPv4(p.ip_prefix.address) THEN 4 ELSE 6),
                   WireBytes(ToPackedString(p.ip_prefix.address)),
                   WireUint8(p.ip_prefix.prefix_length) >>
      w == SerializeIntoWriter(fields)
  IN [length |-> ComputeLengthOnWire(fields), ok |-> w.ok, bytes |-> w.bytes]

WireIpAddressRange(r) ==
  LET fields == << WireUint8(IF IsIPv4(r.start_ip_address) THEN 4 ELSE 6),
                   WireBytes(ToPackedString(r.start_ip_address)),
                   WireBytes(ToPackedString(r.end_ip_address)),
                   WireUint8(r.ip_protocol) >>
      w == SerializeIntoWriter(fields)
  IN [length |-> ComputeLengthOnWire(fields), ok |-> w.ok, bytes |-> w.bytes]

WireSpan(elements) ==
  LET w == SerializeIntoWriter(elements)
  IN [length |-> ComputeLengthOnWire(elements), ok |-> w.ok, bytes |-> w.bytes]

\* Mutant: the payload length is always written in the 8-byte form.
SerializeCapsuleFields_LongLength(type, fields) ==
  LET capsule_payload_size == U64(ComputeLengthOnWire(fields))
  IN SerializeIntoBuffer(
       << WireVarInt62(type),
          [length |-> 8, ok |-> TRUE,
           bytes |-> Bytes([i \in 1..8 |->
                              IF i = 1 THEN 192
                                       ELSE capsule_payload_size[i]])] >>
       \o fields)

\* Mutant: the payload length is not written.
SerializeCapsuleFields_NoLength(type, fields) ==
  SerializeIntoBuffer(<< WireVarInt62(type) >> \o fields)

\* Mutant: the payload length counts the type field as well.
SerializeCapsuleFields_LengthWithType(type, fields) ==
  LET capsule_payload_size ==
        ComputeLengthOnWire(<< WireVarInt62(type) >> \o fields)
  IN SerializeIntoBuffer(<< WireVarInt62(type),
                            WireVarInt62(U64(capsule_payload_size)) >>
                         \o fields)

\* Mutant: the type is cut to its low 62 bits before it is written.
SerializeCapsuleFields_TypeMasked(type, fields) ==
  LET capsule_payload_size == ComputeLengthOnWire(fields)
  IN SerializeIntoBuffer(<< WireVarInt62([type EXCEPT ![1] = @ % 64]),
                            WireVarInt62(U64(capsule_payload_size)) >>
                         \o fields)

SerializeCapsuleFields(type, fields) ==
  LET capsule_payload_size == ComputeLengthOnWire(fields)
  IN SerializeIntoBuffer(<< WireVarInt62(type),
                            WireVarInt62(U64(capsule_payload_size)) >>
                         \o fields)

SerializeCapsuleWithStatus(capsule) ==
  CASE capsule.capsule_type = DATAGRAM ->
         SerializeCapsuleFields(capsule.capsule_type,
                                << WireBytes(capsule.http_datagram_payload) >>)
    [] capsule.capsule_type = LEGACY_DATAGRAM ->
         SerializeCapsuleFields(capsule.capsule_type,
                                << WireBytes(capsule.http_datagram_payload) >>)
    [] capsule.capsule_type = LEGACY_DATAGRAM_WITHOUT_CONTEXT ->
         SerializeCapsuleFields(capsule.capsule_type,
                                << WireBytes(capsule.http_datagram_payload) >>)
    [] capsule.capsule_type = CLOSE_WEBTRANSPORT_SESSION ->
         SerializeCapsuleFields(capsule.capsule_type,
                                << WireUint32(capsule.error_code),
                                   WireBytes(capsule.error_message) >>)
    [] capsule.capsule_type = ADDRESS_REQUEST ->
         SerializeCapsuleFields(
           capsule.capsule_type,
           << WireSpan([i \in DOMAIN capsule.requested_addresses |->
                          WirePrefixWithId(capsule.requested_addresses[i])]) >>)
    [] capsule.capsule_type = ADDRESS_ASSIGN ->
         SerializeCapsuleFields(
           capsule.capsule_type,
           << WireSpan([i \in DOMAIN capsule.assigned_addresses |->
                          WirePrefixWithId(capsule.assigned_addresses[i])]) >>)
    [] capsule.capsule_type = ROUTE_ADVERTISEMENT ->
         SerializeCapsuleFields(
           capsule.capsule_type,
           << WireSpan([i \in DOMAIN capsule.ip_address_ranges |->
                          WireIpAddressRange(capsule.ip_address_ranges[i])]) >>)
    [] OTHER ->
         SerializeCapsuleFields(capsule.capsule_type,
                                << WireBytes(capsule.unknown_capsule_data) >>)

SerializeCapsule(capsule) ==
  LET serialized == SerializeCapsuleWithStatus(capsule)
  IN IF ~serialized.ok THEN <<>> ELSE serialized.buffer

----------------------------------------------------------------------------
(* CapsuleParser: parsing of one capsule *)

\* The callbacks the visitor receives.
OnCapsule(capsule) ==
  [cb |-> "OnCapsule", capsule |-> capsule, error_message |-> ""]

OnCapsuleParseFailure(error_message) ==
  [cb |-> "OnCapsuleParseFailure", capsule |-> Capsule(DATAGRAM),
   error_message |-> error_message]

\* ReportParseFailure on a parser whose flag is `occurred`: the new flag, the
\* callbacks made, and whether the "multiple parse failures" branch ran.
ReportParseFailure(occurred, error_message) ==
  IF occurred
  THEN [parsing_error_occurred_ |-> TRUE, calls |-> <<>>, bug |-> TRUE]
  ELSE [parsing_error_occurred_ |-> TRUE,
        calls |-> << OnCapsuleParseFailure(error_message) >>, bug |-> FALSE]

ParseFail(r, error_message) ==
  [ok |-> FALSE, error_message |-> error_message, reader |-> r, list |-> <<>>]

\* Mutant: every family from 4 to 6 is let through.
BadFamily_Range(address_family) == address_family < 4 \/ address_family > 6

\* if (address_family != 4 && address_family != 6)
BadFamily(address_family) == address_family # 4 /\ address_family # 6

\* Mutant: the prefix length is checked against 128 for both families.
PrefixLengthTooLarge_Max128(ip_prefix_length, ip_address) ==
  ip_prefix_length > 128

\* Mutant: the full prefix length of the family is refused.
PrefixLengthTooLarge_Inclusive(ip_prefix_length, ip_address) ==
  ip_prefix_length >= QuicheIpPrefixOf(ip_address).prefix_length

\* if (ip_prefix_length > quiche::QuicheIpPrefix(ip_address).prefix_length())
PrefixLengthTooLarge(ip_prefix_length, ip_address) ==
  ip_prefix_length > QuicheIpPrefixOf(ip_address).prefix_length

\* The body of the ADDRESS_REQUEST loop, from the payload reader r, appending
\* to the addresses read so far.
RECURSIVE ParseAddressRequest(_, _)
ParseAddressRequest(r, requested_addresses) ==
  IF IsDoneReading(r)
  THEN [ok |-> TRUE, error_message |-> "", reader |-> r,
        list |-> requested_addresses]
  ELSE
  LET id == ReadVarInt62(r) IN
  IF ~id.ok
  THEN ParseFail(r, "Unable to parse capsule ADDRESS_REQUEST request ID")
  ELSE
  LET family == ReadUInt8(id.reader) IN
  IF ~family.ok
  THEN ParseFail(r, "Unable to parse capsule ADDRESS_REQUEST family")
  ELSE IF BadFamily(family.value)
  THEN ParseFail(r, "Bad ADDRESS_REQUEST family")
  ELSE
  LET ip_address_bytes ==
        ReadStringPiece(family.reader,
                        IF family.value = 4 THEN kIPv4AddressSize
                                            ELSE kIPv6AddressSize) IN
  IF ~ip_address_bytes.ok
  THEN ParseFail(r, "Unable to read capsule ADDRESS_REQUEST address")
  ELSE
  LET ip_address == FromPackedString(ip_address_bytes.value,
                                     size(ip_address_bytes.value)) IN
  IF ~ip_address.ok
  THEN ParseFail(r, "Unable to parse capsule ADDRESS_REQUEST address")
  ELSE
  LET ip_prefix_length == ReadUInt8(ip_address_bytes.reader) IN
  IF ~ip_prefix_length.ok
  THEN ParseFail(r, "Unable to parse capsule ADDRESS_REQUEST IP prefix length")
  ELSE IF PrefixLengthTooLarge(ip_prefix_length.value, ip_address.address)
  THEN ParseFail(r, "Invalid IP prefix length")
  ELSE ParseAddressRequest(
         ip_prefix_length.reader,
         Append(requested_addresses,
                [request_id |-> id.value,
                 ip_prefix |-> QuicheIpPrefix(ip_address.address,
                                              ip_prefix_length.value)]))

\* Mutant: the family byte of an IPv6 element is taken as the number of
\* address bytes to read.
RECURSIVE ParseAddressAssign_FamilyAsSize(_, _)
ParseAddressAssign_FamilyAsSize(r, assigned_addresses) ==
  IF IsDoneReading(r)
  THEN [ok |-> TRUE, error_message |-> "", reader |-> r,
        list |-> assigned_addresses]
  ELSE
  LET id == ReadVarInt62(r) IN
  IF ~id.ok
  THEN ParseFail(r, "Unable to parse capsule ADDRESS_ASSIGN request ID")
  ELSE
  LET family == ReadUInt8(id.reader) IN
  IF ~family.ok
  THEN ParseFail(r, "Unable to parse capsule ADDRESS_ASSIGN family")
  ELSE IF BadFamily(family.value)
  THEN ParseFail(r, "Bad ADDRESS_ASSIGN family")
  ELSE
  LET ip_address_bytes ==
        ReadStringPiece(family.reader,
                        IF family.value = 4 THEN kIPv4AddressSize
                                            ELSE family.value) IN
  IF ~ip_address_bytes.ok
  THEN ParseFail(r, "Unable to read capsule ADDRESS_ASSIGN address")
  ELSE
  LET ip_address == FromPackedString(ip_address_bytes.value,
                                     size(ip_address_bytes.value)) IN
  IF ~ip_address.ok
  THEN ParseFail(r, "Unable to parse capsule ADDRESS_ASSIGN address")
  ELSE
  LET ip_prefix_length == ReadUInt8(ip_address_bytes.reader) IN
  IF ~ip_prefix_length.ok
  THEN ParseFail(r, "Unable to parse capsule ADDRESS_ASSIGN IP prefix length")
  ELSE IF PrefixLengthTooLarge(ip_prefix_length.value, ip_address.address)
  THEN ParseFail(r, "Invalid IP prefix length")
  ELSE ParseAddressAssign_FamilyAsSize(
         ip_prefix_length.reader,
         Append(assigned_addresses,
                [request_id |-> id.value,
                 ip_prefix |-> QuicheIpPrefix(ip_address.address,
                                              ip_prefix_length.value)]))

\* The body of the ADDRESS_ASSIGN loop.
RECURSIVE ParseAddressAssign(_, _)
ParseAddressAssign(r, assigned_addresses) ==
  IF IsDoneReading(r)
  THEN [ok |-> TRUE, error_message |-> "", reader |-> r,
        list |-> assigned_addresses]
  ELSE
  LET id == ReadVarInt62(r) IN
  IF ~id.ok
  THEN ParseFail(r, "Unable to parse capsule ADDRESS_ASSIGN request ID")
  ELSE
  LET family == ReadUInt8(id.reader) IN
  IF ~family.ok
  THEN ParseFail(r, "Unable to parse capsule ADDRESS_ASSIGN family")
  ELSE IF BadFamily(family.value)
  THEN ParseFail(r, "Bad ADDRESS_ASSIGN family")
  ELSE
  LET ip_address_bytes ==
        ReadStringPiece(family.reader,
                        IF family.value = 4 THEN kIPv4AddressSize
                                            ELSE kIPv6AddressSize) IN
  IF ~ip_address_bytes.ok
  THEN ParseFail(r, "Unable to read capsule ADDRESS_ASSIGN address")
  ELSE
  LET ip_address == FromPackedString(ip_address_bytes.value,
                                     size(ip_address_bytes.value)) IN
  IF ~ip_address.ok
  THEN ParseFail(r, "Unable to parse capsule ADDRESS_ASSIGN address")
  ELSE
  LET ip_prefix_length == ReadUInt8(ip_address_bytes.reader) IN
  IF ~ip_prefix_length.ok
  THEN ParseFail(r, "Unable to parse capsule ADDRESS_ASSIGN IP prefix length")
  ELSE IF PrefixLengthTooLarge(ip_prefix_length.value, ip_address.address)
  THEN ParseFail(r, "Invalid IP prefix length")
  ELSE ParseAddressAssign(
         ip_prefix_length.reader,
         Append(assigned_addresses,
                [request_id |-> id.value,
                 ip_prefix |-> QuicheIpPrefix(ip_address.address,
                                              ip_prefix_length.value)]))

\* Mutant: bytes after the last whole range that are too few for a start
\* address are ignored, and the ranges read so far are kept.
RECURSIVE ParseRouteAdvertisement_KeepGood(_, _)
ParseRouteAdvertisement_KeepGood(r, ip_address_ranges) ==
  IF IsDoneReading(r)
  THEN [ok |-> TRUE, error_message |-> "", reader |-> r,
        list |-> ip_address_ranges]
  ELSE
  LET family == ReadUInt8(r) IN
  IF ~family.ok
  THEN ParseFail(r, "Unable to parse capsule ROUTE_ADVERTISEMENT family")
  ELSE IF BadFamily(family.value)
  THEN ParseFail(r, "Bad ROUTE_ADVERTISEMENT family")
  ELSE
  LET start_ip_address_bytes ==
        ReadStringPiece(family.reader,
                        IF family.value = 4 THEN kIPv4AddressSize
                                            ELSE kIPv6AddressSize) IN
  IF ~start_ip_address_bytes.ok
  THEN IF ip_address_ranges # <<>>
       THEN [ok |-> TRUE, error_message |-> "", reader |-> r,
             list |-> ip_address_ranges]
       ELSE ParseFail(r, "Unable to read capsule ROUTE_ADVERTISEMENT start address")
  ELSE
  LET start_ip_address == FromPackedString(start_ip_address_bytes.value,
                                           size(start_ip_address_bytes.value)) IN
  IF ~start_ip_address.ok
  THEN ParseFail(r, "Unable to parse capsule ROUTE_ADVERTISEMENT start address")
  ELSE
  LET end_ip_address_bytes ==
        ReadStringPiece(start_ip_address_bytes.reader,
                        IF family.value = 4 THEN kIPv4AddressSize
                                            ELSE kIPv6AddressSize) IN
  IF ~end_ip_address_bytes.ok
  THEN ParseFail(r, "Unable to read capsule ROUTE_ADVERTISEMENT end address")
  ELSE
  LET end_ip_address == FromPackedString(end_ip_address_bytes.value,
                                         size(end_ip_address_bytes.value)) IN
  IF ~end_ip_address.ok
  THEN ParseFail(r, "Unable to parse capsule ROUTE_ADVERTISEMENT end address")
  ELSE
  LET ip_protocol == ReadUInt8(end_ip_address_bytes.reader) IN
  IF ~ip_protocol.ok
  THEN ParseFail(r, "Unable to parse capsule ROUTE_ADVERTISEMENT IP protocol")
  ELSE ParseRouteAdvertisement_KeepGood(
         ip_protocol.reader,
         Append(ip_address_ranges,
                [start_ip_address |-> start_ip_address.address,
                 end_ip_address |-> end_ip_address.address,
                 ip_protocol |-> ip_protocol.value]))

\* The body of the ROUTE_ADVERTISEMENT loop.
RECURSIVE ParseRouteAdvertisement(_, _)
ParseRouteAdvertisement(r, ip_address_ranges) ==
  IF IsDoneReading(r)
  THEN [ok |-> TRUE, error_message |-> "", reader |-> r,
        list |-> ip_address_ranges]
  ELSE
  LET family == ReadUInt8(r) IN
  IF ~family.ok
  THEN ParseFail(r, "Unable to parse capsule ROUTE_ADVERTISEMENT family")
  ELSE IF BadFamily(family.value)
  THEN ParseFail(r, "Bad ROUTE_ADVERTISEMENT family")
  ELSE
  LET start_ip_address_bytes ==
        ReadStringPiece(family.reader,
                        IF family.value = 4 THEN kIPv4AddressSize
                                            ELSE kIPv6AddressSize) IN
  IF ~start_ip_address_bytes.ok
  THEN ParseFail(r, "Unable to read capsule ROUTE_ADVERTISEMENT start address")
  ELSE
  LET start_ip_address == FromPackedString(start_ip_address_bytes.value,
                                           size(start_ip_address_bytes.value)) IN
  IF ~start_ip_address.ok
  THEN ParseFail(r, "Unable to parse capsule ROUTE_ADVERTISEMENT start address")
  ELSE
  LET end_ip_address_bytes ==
        ReadStringPiece(start_ip_address_bytes.reader,
                        IF family.value = 4 THEN kIPv4AddressSize
                                            ELSE kIPv6AddressSize) IN
  IF ~end_ip_address_bytes.ok
  THEN ParseFail(r, "Unable to read capsule ROUTE_ADVERTISEMENT end address")
  ELSE
  LET end_ip_address == FromPackedString(end_ip_address_bytes.value,
                                         size(end_ip_address_bytes.value)) IN
  IF ~end_ip_address.ok
  THEN ParseFail(r, "Unable to parse capsule ROUTE_ADVERTISEMENT end address")
  ELSE
  LET ip_protocol == ReadUInt8(end_ip_address_bytes.reader) IN
  IF ~ip_protocol.ok
  THEN ParseFail(r, "Unable to parse capsule ROUTE_ADVERTISEMENT IP protocol")
  ELSE ParseRouteAdvertisement(
         ip_protocol.reader,
         Append(ip_address_ranges,
                [start_ip_address |-> start_ip_address.address,
                 end_ip_address |-> end_ip_address.address,
                 ip_protocol |-> ip_protocol.value]))

\* Mutant: the error message is read from the start of the payload.
ParseCloseWebTransportSession_Rewound(capsule, capsule_data_reader) ==
  Let(ReadUInt32(capsule_data_reader), LAMBDA error_code :
  IF ~error_code.ok
  THEN [ok |-> FALSE,
        error_message |->
          "Unable to parse capsule CLOSE_WEBTRANSPORT_SESSION error code",
        capsule |-> capsule]
  ELSE [ok |-> TRUE, error_message |-> "",
        capsule |-> [capsule EXCEPT
           !.error_code = error_code.value,
           !.error_message =
              ReadRemainingPayload(capsule_data_reader).value]])

\* case CapsuleType::CLOSE_WEBTRANSPORT_SESSION of the switch.
ParseCloseWebTransportSession(capsule, capsule_data_reader) ==
  Let(ReadUInt32(capsule_data_reader), LAMBDA error_code :
  IF ~error_code.ok
  THEN [ok |-> FALSE,
        error_message |->
          "Unable to parse capsule CLOSE_WEBTRANSPORT_SESSION error code",
        capsule |-> capsule]
  ELSE [ok |-> TRUE, error_message |-> "",
        capsule |-> [capsule EXCEPT
           !.error_code = error_code.value,
           !.error_message =
              ReadRemainingPayload(error_code.reader).value]])

\* Mutant: the payload of a datagram capsule is not read.
ParseHttpDatagramPayload_NotRead(capsule, capsule_data_reader) ==
  [ok |-> TRUE, error_message |-> "", capsule |-> capsule]

\* cases DATAGRAM, LEGACY_DATAGRAM and LEGACY_DATAGRAM_WITHOUT_CONTEXT of the
\* switch.
ParseHttpDatagramPayload(capsule, capsule_data_reader) ==
  [ok |-> TRUE, error_message |-> "",
   capsule |-> [capsule EXCEPT !.http_datagram_payload =
                  ReadRemainingPayload(capsule_data_reader).value]]

\* default case of the switch.
ParseUnknownCapsuleData(capsule, capsule_data_reader) ==
  [ok |-> TRUE, error_message |-> "",
   capsule |-> [capsule EXCEPT !.unknown_capsule_data =
                  ReadRemainingPayload(capsule_data_reader).value]]

\* The switch of AttemptParseCapsule: the capsule built from the type and the
\* payload slice, or the message of the parse failure.
ParseCapsuleData(capsule_type64, capsule_data) ==
  LET capsule_data_reader == QuicheDataReader(capsule_data)
      capsule == Capsule(capsule_type64)
  IN
  CASE capsule_type64 = DATAGRAM ->
         ParseHttpDatagramPayload(capsule, capsule_data_reader)
    [] capsule_type64 = LEGACY_DATAGRAM ->
         ParseHttpDatagramPayload(capsule, capsule_data_reader)
    [] capsule_type64 = LEGACY_DATAGRAM_WITHOUT_CONTEXT ->
         ParseHttpDatagramPayload(capsule, capsule_data_reader)
    [] capsule_type64 = CLOSE_WEBTRANSPORT_SESSION ->
         ParseCloseWebTransportSession(capsule, capsule_data_reader)
    [] capsule_type64 = ADDRESS_REQUEST ->
         Let(ParseAddressRequest(capsule_data_reader, <<>>), LAMBDA l :
             [ok |-> l.ok, error_message |-> l.error_message,
              capsule |-> [capsule EXCEPT !.requested_addresses = l.list]])
    [] capsule_type64 = ADDRESS_ASSIGN ->
         Let(ParseAddressAssign(capsule_data_reader, <<>>), LAMBDA l :
             [ok |-> l.ok, error_message |-> l.error_message,
              capsule |-> [capsule EXCEPT !.assigned_addresses = l.list]])
    [] capsule_type64 = ROUTE_ADVERTISEMENT ->
         Let(ParseRouteAdvertisement(capsule_data_reader, <<>>), LAMBDA l :
             [ok |-> l.ok, error_message |-> l.error_message,
              capsule |-> [capsule EXCEPT !.ip_address_ranges = l.list]])
    [] OTHER -> ParseUnknownCapsuleData(capsule, capsule_data_reader)

\* Mutant: the value OnCapsule returns is ignored.
OnCapsuleFailed_Ignored(visitor_returns) == FALSE

\* if (!visitor_->OnCapsule(capsule)), given the value OnCapsule returns.
OnCapsuleFailed(visitor_returns) == ~visitor_returns

\* Mutant: one byte is counted as read, whatever the capsule took.
BytesRead_OneByte(capsule_fragment_reader) == 1

\* Mutant: returns what is left to read instead of what was read.
BytesRead_Remaining(capsule_fragment_reader) ==
  BytesRemaining(capsule_fragment_reader)

\* The return value of a successful AttemptParseCapsule: the bytes the
\* fragment reader went through, header and payload.
BytesRead(capsule_fragment_reader) ==
  size(PreviouslyReadPayload(capsule_fragment_reader))

\* Mutant: a capsule whose payload has not all arrived is a parse failure.
AttemptParseCapsule_ShortIsFailure(buffered_data, occurred, visitor_returns) ==
  LET nothing == [read |-> 0, parsing_error_occurred_ |-> occurred,
                  calls |-> <<>>, asked |-> FALSE, rejected |-> FALSE,
                  bug |-> FALSE]
  IN
  IF buffered_data = <<>> THEN nothing
  ELSE
  Let(ReadVarInt62(QuicheDataReader(buffered_data)), LAMBDA capsule_type64 :
  IF ~capsule_type64.ok THEN nothing
  ELSE
  Let(ReadStringPieceVarInt62(capsule_type64.reader), LAMBDA capsule_data :
  IF ~capsule_data.ok
  THEN LET f == ReportParseFailure(occurred, "Unable to parse capsule")
       IN [read |-> 0, parsing_error_occurred_ |-> f.parsing_error_occurred_,
           calls |-> f.calls, asked |-> FALSE, rejected |-> FALSE,
           bug |-> f.bug]
  ELSE
  Let(ParseCapsuleData(capsule_type64.value, capsule_data.value),
      LAMBDA parsed :
  IF ~parsed.ok
  THEN LET f == ReportParseFailure(occurred, parsed.error_message)
       IN [read |-> 0, parsing_error_occurred_ |-> f.parsing_error_occurred_,
           calls |-> f.calls, asked |-> FALSE, rejected |-> FALSE,
           bug |-> f.bug]
  ELSE IF OnCapsuleFailed(visitor_returns)
  THEN LET f == ReportParseFailure(occurred,
                                   "Visitor failed to process capsule")
       IN [read |-> 0, parsing_error_occurred_ |-> f.parsing_error_occurred_,
           calls |-> << OnCapsule(parsed.capsule) >> \o f.calls,
           asked |-> TRUE, rejected |-> ~visitor_returns, bug |-> f.bug]
  ELSE [read |-> BytesRead(capsule_data.reader),
        parsing_error_occurred_ |-> occurred,
        calls |-> << OnCapsule(parsed.capsule) >>,
        asked |-> TRUE, rejected |-> ~visitor_returns, bug |-> FALSE])))

\* AttemptParseCapsule on the buffer, with the value the visitor's OnCapsule
\* returns should it be called: the bytes read, the error flag, the callbacks
\* made, whether OnCapsule was called and returned false, and whether
\* ReportParseFailure hit its bug branch.
AttemptParseCapsule(buffered_data, occurred, visitor_returns) ==
  LET nothing == [read |-> 0, parsing_error_occurred_ |-> occurred,
                  calls |-> <<>>, asked |-> FALSE, rejected |-> FALSE,
                  bug |-> FALSE]
  IN
  IF buffered_data = <<>> THEN nothing
  ELSE
  Let(ReadVarInt62(QuicheDataReader(buffered_data)), LAMBDA capsule_type64 :
  IF ~capsule_type64.ok THEN nothing
  ELSE
  Let(ReadStringPieceVarInt62(capsule_type64.reader), LAMBDA capsule_data :
  IF ~capsule_data.ok THEN nothing
  ELSE
  Let(ParseCapsuleData(capsule_type64.value, capsule_data.value),
      LAMBDA parsed :
  IF ~parsed.ok
  THEN LET f == ReportParseFailure(occurred, parsed.error_message)
       IN [read |-> 0, parsing_error_occurred_ |-> f.parsing_error_occurred_,
           calls |-> f.calls, asked |-> FALSE, rejected |-> FALSE,
           bug |-> f.bug]
  ELSE IF OnCapsuleFailed(visitor_returns)
  THEN LET f == ReportParseFailure(occurred,
                                   "Visitor failed to process capsule")
       IN [read |-> 0, parsing_error_occurred_ |-> f.parsing_error_occurred_,
           calls |-> << OnCapsule(parsed.capsule) >> \o f.calls,
           asked |-> TRUE, rejected |-> ~visitor_returns, bug |-> f.bug]
  ELSE [read |-> BytesRead(capsule_data.reader),
        parsing_error_occurred_ |-> occurred,
        calls |-> << OnCapsule(parsed.capsule) >>,
        asked |-> TRUE, rejected |-> ~visitor_returns, bug |-> FALSE])))

----------------------------------------------------------------------------
(* CapsuleParser: IngestCapsuleFragment and                                *)
(* ErrorIfThereIsRemainingBufferedData                                     *)

kMaxCapsuleBufferSize == 1024 * 1024

\* The visitor of one ingest call is the index of the OnCapsule call (counted
\* within the call) that it answers with false; 0 when it accepts them all.
VisitorReturns(visitor, on_capsule_calls) == on_capsule_calls + 1 # visitor

\* One of the two assertions on an attempt `a` of AttemptParseCapsule fails:
\* QUICHE_DCHECK(!parsing_error_occurred_) on entry, with the flag `occurred`,
\* or QUICHE_DCHECK_EQ(buffered_data_read, 0u) after an attempt that set the
\* error.
DCheckFails(occurred, a) ==
  occurred \/ (a.parsing_error_occurred_ /\ a.read # 0)

\* Mutant: the loop hands a later capsule to the visitor before an earlier
\* one.
RECURSIVE ParseLoop_Reversed(_, _, _, _)
ParseLoop_Reversed(buffered_data, occurred, visitor, acc) ==
  Let(AttemptParseCapsule(buffered_data, occurred,
                          VisitorReturns(visitor, acc.delivered)),
      LAMBDA a :
  Let([calls |-> a.calls \o acc.calls,
       erased |-> acc.erased + a.read,
       delivered |-> acc.delivered + (IF a.asked THEN 1 ELSE 0),
       rejected |-> acc.rejected \/ a.rejected,
       bug |-> acc.bug \/ a.bug \/ DCheckFails(occurred, a)],
      LAMBDA acc2 :
  IF a.parsing_error_occurred_
  THEN [buffered_data_ |-> <<>>, parsing_error_occurred_ |-> TRUE,
        returned |-> TRUE, acc |-> acc2, read_on_error |-> a.read]
  ELSE IF a.read = 0
  THEN [buffered_data_ |-> buffered_data, parsing_error_occurred_ |-> FALSE,
        returned |-> FALSE, acc |-> acc2, read_on_error |-> 0]
  ELSE Let(erase(buffered_data, a.read),
           LAMBDA rest : ParseLoop_Reversed(rest, FALSE, visitor, acc2))))

\* Mutant: one capsule is parsed per call, the rest stays in the buffer.
ParseLoop_Once(buffered_data, occurred, visitor, acc) ==
  Let(AttemptParseCapsule(buffered_data, occurred,
                          VisitorReturns(visitor, acc.delivered)),
      LAMBDA a :
  Let([calls |-> acc.calls \o a.calls,
       erased |-> acc.erased + a.read,
       delivered |-> acc.delivered + (IF a.asked THEN 1 ELSE 0),
       rejected |-> acc.rejected \/ a.rejected,
       bug |-> acc.bug \/ a.bug \/ DCheckFails(occurred, a)],
      LAMBDA acc2 :
  IF a.parsing_error_occurred_
  THEN [buffered_data_ |-> <<>>, parsing_error_occurred_ |-> TRUE,
        returned |-> TRUE, acc |-> acc2, read_on_error |-> a.read]
  ELSE [buffered_data_ |-> erase(buffered_data, a.read),
        parsing_error_occurred_ |-> FALSE,
        returned |-> FALSE, acc |-> acc2, read_on_error |-> 0]))

\* The while (true) loop of IngestCapsuleFragment, entered with the buffer
\* holding the appended fragment.  `acc` accumulates what the visitor saw:
\* the callbacks made, the bytes erased, the number of OnCapsule calls and
\* whether the visitor returned false.  `returned` tells that the loop left the
\* function with return false.
RECURSIVE ParseLoop(_, _, _, _)
ParseLoop(buffered_data, occurred, visitor, acc) ==
  Let(AttemptParseCapsule(buffered_data, occurred,
                          VisitorReturns(visitor, acc.delivered)),
      LAMBDA a :
  Let([calls |-> acc.calls \o a.calls,
       erased |-> acc.erased + a.read,
       delivered |-> acc.delivered + (IF a.asked THEN 1 ELSE 0),
       rejected |-> acc.rejected \/ a.rejected,
       bug |-> acc.bug \/ a.bug \/ DCheckFails(occurred, a)],
      LAMBDA acc2 :
  IF a.parsing_error_occurred_
  THEN [buffered_data_ |-> <<>>, parsing_error_occurred_ |-> TRUE,
        returned |-> TRUE, acc |-> acc2, read_on_error |-> a.read]
  ELSE IF a.read = 0
  THEN [buffered_data_ |-> buffered_data, parsing_error_occurred_ |-> FALSE,
        returned |-> FALSE, acc |-> acc2, read_on_error |-> 0]
  ELSE Let(erase(buffered_data, a.read),
           LAMBDA rest : ParseLoop(rest, FALSE, visitor, acc2))))

\* Mutants of the size check: inclusive, off by one, and twice the limit.
BufferTooLarge_Inclusive(buffered_data) ==
  size(buffered_data) >= kMaxCapsuleBufferSize

BufferTooLarge_OffByOne(buffered_data) ==
  size(buffered_data) > kMaxCapsuleBufferSize + 1

BufferTooLarge_Doubled(buffered_data) ==
  size(buffered_data) > 2 * kMaxCapsuleBufferSize

\* if (buffered_data_.size() > kMaxCapsuleBufferSize)
BufferTooLarge(buffered_data) == size(buffered_data) > kMaxCapsuleBufferSize

\* IngestCapsuleFragment from the StrAppend on.  `appended` is the buffer
\* size right after the fragment was appended and `residual` the buffer size
\* at the size check (-1 when the check is not reached).
AppendAndParse(buffered_data, occurred, capsule_fragment, visitor) ==
  Let(StrAppend(buffered_data, capsule_fragment), LAMBDA appended :
  Let(ParseLoop(appended, occurred, visitor,
                [calls |-> <<>>, erased |-> 0, delivered |-> 0,
                 rejected |-> FALSE, bug |-> FALSE]),
      LAMBDA loop :
  IF loop.returned
  THEN [buffered_data_ |-> loop.buffered_data_,
        parsing_error_occurred_ |-> loop.parsing_error_occurred_,
        result |-> FALSE, calls |-> loop.acc.calls,
        erased |-> loop.acc.erased, delivered |-> loop.acc.delivered,
        rejected |-> loop.acc.rejected, bug |-> loop.acc.bug,
        appended |-> size(appended), residual |-> -1]
  ELSE IF BufferTooLarge(loop.buffered_data_)
  THEN LET f == ReportParseFailure(
                  loop.parsing_error_occurred_,
                  "Refusing to buffer too much capsule data")
       IN [buffered_data_ |-> <<>>,
           parsing_error_occurred_ |-> f.parsing_error_occurred_,
           result |-> FALSE, calls |-> loop.acc.calls \o f.calls,
           erased |-> loop.acc.erased, delivered |-> loop.acc.delivered,
           rejected |-> loop.acc.rejected, bug |-> loop.acc.bug \/ f.bug,
           appended |-> size(appended),
           residual |-> size(loop.buffered_data_)]
  ELSE [buffered_data_ |-> loop.buffered_data_,
        parsing_error_occurred_ |-> loop.parsing_error_occurred_,
        result |-> TRUE, calls |-> loop.acc.calls,
        erased |-> loop.acc.erased, delivered |-> loop.acc.delivered,
        rejected |-> loop.acc.rejected, bug |-> loop.acc.bug,
        appended |-> size(appended), residual |-> size(loop.buffered_data_)]))

\* Mutant: no early return on a parser that has failed.
IngestCapsuleFragment_NoEarlyReturn(buffered_data, occurred, capsule_fragment, visitor) ==
  AppendAndParse(buffered_data, occurred, capsule_fragment, visitor)

\* Mutant: a failed parser ignores the fragment but returns true.
IngestCapsuleFragment_EarlyTrue(buffered_data, occurred, capsule_fragment, visitor) ==
  IF occurred
  THEN [buffered_data_ |-> buffered_data, parsing_error_occurred_ |-> TRUE,
        result |-> TRUE, calls |-> <<>>, erased |-> 0, delivered |-> 0,
        rejected |-> FALSE, bug |-> FALSE, appended |-> size(buffered_data),
        residual |-> -1]
  ELSE AppendAndParse(buffered_data, occurred, capsule_fragment, visitor)

\* IngestCapsuleFragment on the parser state (buffered_data, occurred).
IngestCapsuleFragment(buffered_data, occurred, capsule_fragment, visitor) ==
  IF occurred
  THEN [buffered_data_ |-> buffered_data, parsing_error_occurred_ |-> TRUE,
        result |-> FALSE, calls |-> <<>>, erased |-> 0, delivered |-> 0,
        rejected |-> FALSE, bug |-> FALSE, appended |-> size(buffered_data),
        residual |-> -1]
  ELSE AppendAndParse(buffered_data, occurred, capsule_fragment, visitor)

\* Mutant: the end of the stream is an error even with an empty buffer.
ErrorIfThereIsRemainingBufferedData_Always(buffered_data, occurred) ==
  IF occurred
  THEN [buffered_data_ |-> buffered_data, parsing_error_occurred_ |-> TRUE,
        calls |-> <<>>, bug |-> FALSE]
  ELSE [buffered_data_ |-> buffered_data, parsing_error_occurred_ |-> TRUE,
        calls |-> << OnCapsuleParseFailure(
                       "Incomplete capsule left at the end of the stream") >>,
        bug |-> FALSE]

ErrorIfThereIsRemainingBufferedData(buffered_data, occurred) ==
  IF occurred
  THEN [buffered_data_ |-> buffered_data, parsing_error_occurred_ |-> TRUE,
        calls |-> <<>>, bug |-> FALSE]
  ELSE IF buffered_data # <<>>
  THEN LET f == ReportParseFailure(
                  occurred, "Incomplete capsule left at the end of the stream")
       IN [buffered_data_ |-> buffered_data,
           parsing_error_occurred_ |-> f.parsing_error_occurred_,
           calls |-> f.calls, bug |-> f.bug]
  ELSE [buffered_data_ |-> buffered_data, parsing_error_occurred_ |-> FALSE,
        calls |-> <<>>, bug |-> FALSE]

----------------------------------------------------------------------------
(* Inputs: the capsules and byte streams the parser is driven with *)

MaxFragment == 2
MaxLargeCalls == 3
MaxLateCalls == 1
MaxVisitor == 2

Abc == Bytes(<<97, 98, 99>>)

Hello == Bytes(<<104, 101, 108, 108, 111>>)

Payloads == { <<>>, Abc, Bytes(<<1>>) }

V4a == FromPackedString(Bytes(<<10, 0, 0, 1>>), 4).address
V4b == FromPackedString(Run(255, 4), 4).address
V6a == FromPackedString(StrAppend(Run(0, 15), Run(1, 1)), 16).address

MaxVarInt62 == <<63, 255, 255, 255, 255, 255, 255, 255>>

P1 == [request_id |-> U64(0), ip_prefix |-> QuicheIpPrefix(V4a, 32)]
P2 == [request_id |-> U64(300), ip_prefix |-> QuicheIpPrefix(V4b, 0)]
P3 == [request_id |-> MaxVarInt62, ip_prefix |-> QuicheIpPrefix(V6a, 128)]
P4 == [request_id |-> U64(1), ip_prefix |-> QuicheIpPrefix(V6a, 0)]
P5 == [request_id |-> U64(2), ip_prefix |-> QuicheIpPrefix(V4a, 24)]

R1 == [start_ip_address |-> V4a, end_ip_address |-> V4b, ip_protocol |-> 17]
R2 == [start_ip_address |-> V6a, end_ip_address |-> V6a, ip_protocol |-> 0]
R3 == [start_ip_address |-> V4b, end_ip_address |-> V4a, ip_protocol |-> 255]

KnownCapsules ==
  { Datagram(p) : p \in Payloads }
  \cup { LegacyDatagram(Abc), LegacyDatagramWithoutContext(<<>>),
         LegacyDatagramWithoutContext(Bytes(<<1>>)) }
  \cup { CloseWebTransportSession(<<0, 42>>, Hello),
         CloseWebTransportSession(<<4660, 22136>>, <<>>),
         CloseWebTransportSession(<<65535, 65535>>, Bytes(<<1>>)) }
  \cup { AddressRequest(l) : l \in { <<>>, <<P1>>, <<P3>>, <<P1, P2>> } }
  \cup { AddressAssign(l) : l \in { <<>>, <<P2>>, <<P2, P1>>, <<P4, P5>> } }
  \cup { RouteAdvertisement(l) : l \in { <<>>, <<R1>>, <<R2>>, <<R3, R1>> } }

UnknownTypes ==
  { U64(23), U64(64), U64(16384), U64(1073741824), MaxVarInt62 }

UnknownCapsules ==
  { Unknown(t, Abc) : t \in UnknownTypes }
  \cup { Unknown(U64(23), <<>>), Unknown(U64(64), Bytes(<<1>>)) }

\* Capsules whose wire form is about as large as the parser's buffer limit,
\* or larger.
LargeCapsules ==
  { Datagram(Run(97, kMaxCapsuleBufferSize - 5)),
    Datagram(Run(97, kMaxCapsuleBufferSize - 4)),
    Datagram(Run(97, kMaxCapsuleBufferSize + 1)),
    Unknown(U64(23), Run(0, 2 * kMaxCapsuleBufferSize)) }

\* Capsules that follow one another in a stream.
PairCapsules ==
  { Datagram(<<>>), CloseWebTransportSession(<<0, 42>>, Bytes(<<104, 105>>)),
    Unknown(U64(64), Bytes(<<1>>)) }

CapsuleLists ==
  { <<c>> : c \in KnownCapsules \cup UnknownCapsules \cup LargeCapsules }
  \cup { <<c, d>> : c \in PairCapsules, d \in PairCapsules }
  \cup { << Datagram(Run(97, kMaxCapsuleBufferSize + 1)), Datagram(Abc) >>,
         << Datagram(Abc), Unknown(U64(23), Run(0, 2 * kMaxCapsuleBufferSize)) >>,
         << Datagram(Abc), Datagram(<<>>), Unknown(U64(23), Bytes(<<1>>)) >> }

RECURSIVE SerializeAll(_)
SerializeAll(capsules) ==
  IF capsules = <<>> THEN <<>>
  ELSE StrAppend(SerializeCapsule(capsules[1]), SerializeAll(Tail(capsules)))

\* The wire form of a capsule of the given type with the given payload bytes.
RawCapsule(type, payload) ==
  StrAppend(WriteVarInt62(type).bytes,
            StrAppend(WriteVarInt62(U64(size(payload))).bytes, payload))

\* Streams with one capsule that has an element of a family other than 4 and
\* 6, after `before`, the capsules that precede it in the stream; `name` is
\* the name of the capsule type.
BadFamilyCases ==
  { \* a datagram, then ADDRESS_REQUEST whose only element has family 5, then
    \* a datagram
    [name |-> "ADDRESS_REQUEST", before |-> << Datagram(Bytes(<<7>>)) >>,
     stream |-> Bytes(<<0, 1, 7, 192, 0, 0, 0, 158, 202, 106, 0, 2, 0, 5,
                        0, 0>>)],
    \* ADDRESS_REQUEST: two good elements, then family 5
    [name |-> "ADDRESS_REQUEST", before |-> <<>>,
     stream |-> RawCapsule(ADDRESS_REQUEST,
                  StrAppend(WirePrefixWithId(P1).bytes,
                  StrAppend(WirePrefixWithId(P2).bytes,
                            Bytes(<<0, 5, 10, 0, 0, 1, 32>>))))],
    \* ADDRESS_ASSIGN: one good element, then family 0
    [name |-> "ADDRESS_ASSIGN", before |-> <<>>,
     stream |-> RawCapsule(ADDRESS_ASSIGN,
                  StrAppend(WirePrefixWithId(P3).bytes,
                            Bytes(<<1, 0, 10, 0, 0, 1, 32>>)))],
    \* ROUTE_ADVERTISEMENT: one good range, then family 5
    [name |-> "ROUTE_ADVERTISEMENT", before |-> <<>>,
     stream |-> RawCapsule(ROUTE_ADVERTISEMENT,
                  StrAppend(WireIpAddressRange(R1).bytes,
                            Bytes(<<5, 10, 0, 0, 1, 10, 0, 0, 2, 17>>)))],
    \* ROUTE_ADVERTISEMENT: family 255 in the first range
    [name |-> "ROUTE_ADVERTISEMENT", before |-> <<>>,
     stream |-> RawCapsule(ROUTE_ADVERTISEMENT,
                  Bytes(<<255, 10, 0, 0, 1, 10, 0, 0, 2, 17>>))] }

\* Streams with one ADDRESS_REQUEST or ADDRESS_ASSIGN capsule that has an
\* element whose prefix length is one more than its family allows.
InvalidPrefixLengthCases ==
  { \* ADDRESS_ASSIGN with an IPv4 prefix of length 33
    [stream |-> Bytes(<<192, 0, 0, 0, 158, 202, 106, 1, 7, 0, 4, 10, 0, 0, 1,
                        33>>)],
    \* ADDRESS_ASSIGN: one good element, then an IPv6 prefix of length 129
    [stream |-> RawCapsule(ADDRESS_ASSIGN,
                  StrAppend(WirePrefixWithId(P3).bytes,
                  StrAppend(Bytes(<<2, 6>>),
                  StrAppend(Run(0, 16), Bytes(<<129>>)))))],
    \* ADDRESS_REQUEST: one good element, then an IPv4 prefix of length 33
    [stream |-> RawCapsule(ADDRESS_REQUEST,
                  StrAppend(WirePrefixWithId(P1).bytes,
                            Bytes(<<1, 4, 10, 0, 0, 1, 33>>)))],
    \* ADDRESS_REQUEST with an IPv6 prefix of length 129
    [stream |-> RawCapsule(ADDRESS_REQUEST,
                  StrAppend(Bytes(<<0, 6>>),
                  StrAppend(Run(0, 16), Bytes(<<129>>))))] }

\* The bytes of two scenarios: 0x40 0x28 0x43 0x08 0x00 0x00 0x00 0x2A
\* "hello", and 0x80 0x9E 0xCA 0x6A 0x00 0x07 0x00 0x04 0x0A 0x00 0x00 0x01
\* 0x20.
Scenario3 ==
  Bytes(<<64, 40, 67, 8, 0, 0, 0, 42, 104, 101, 108, 108, 111>>)

Scenario5 == Bytes(<<128, 158, 202, 106, 0, 7, 0, 4, 10, 0, 0, 1, 32>>)

\* Streams of one capsule whose varints are written in longer forms than
\* their values need, with the capsule they encode.
NonCanonicalCases ==
  { \* DATAGRAM: type 0 in 2 bytes, length 3 in 4 bytes
    [capsule |-> Datagram(Abc),
     stream |-> Bytes(<<64, 0, 128, 0, 0, 3, 97, 98, 99>>)],
    \* CLOSE_WEBTRANSPORT_SESSION: type in 8 bytes, length 6 in 2 bytes
    [capsule |-> CloseWebTransportSession(<<0, 42>>, Bytes(<<104, 105>>)),
     stream |-> Bytes(<<192, 0, 0, 0, 0, 0, 40, 67, 64, 6,
                        0, 0, 0, 42, 104, 105>>)],
    \* ADDRESS_REQUEST: length 10 in 8 bytes, request id 0 in 4 bytes
    [capsule |-> AddressRequest(<<P1>>),
     stream |-> Bytes(<<192, 0, 0, 0, 158, 202, 106, 0,
                        192, 0, 0, 0, 0, 0, 0, 10,
                        128, 0, 0, 0, 4, 10, 0, 0, 1, 32>>)],
    \* unknown type 23 in 4 bytes, length 0 in 8 bytes
    [capsule |-> Unknown(U64(23), <<>>),
     stream |-> Bytes(<<128, 0, 0, 23, 192, 0, 0, 0, 0, 0, 0, 0>>)] }

\* Payloads of CLOSE_WEBTRANSPORT_SESSION capsules, byte by byte: shorter
\* than the error code, just the error code, and longer.
ClosePayloads ==
  { <<>>, <<7>>, <<1, 2, 3>>, <<18, 52, 86, 120>>,
    <<0, 0, 0, 42, 104, 101, 108, 108, 111>>, <<255, 255, 255, 255, 1>> }

\* Streams in which the capsules of `before` are followed by a complete
\* malformed capsule, and that by `after`, more bytes.
MalformedAfterGood(before, malformed, after) ==
  [before |-> before,
   stream |-> StrAppend(SerializeAll(before), StrAppend(malformed, after))]

MalformedCases ==
  { \* a ROUTE_ADVERTISEMENT whose payload ends inside the end address
    MalformedAfterGood(<<>>,
      Bytes(<<192, 0, 0, 0, 158, 202, 106, 2, 6, 4, 10, 0, 0, 1, 10>>), <<>>),
    \* one datagram, a CLOSE_WEBTRANSPORT_SESSION with a 3-byte payload
    MalformedAfterGood(<< Datagram(Abc) >>,
      RawCapsule(CLOSE_WEBTRANSPORT_SESSION, Abc), <<>>),
    \* two capsules, a CLOSE_WEBTRANSPORT_SESSION with a 2-byte payload, and
    \* a datagram
    MalformedAfterGood(<< Datagram(Abc), Unknown(U64(64), Bytes(<<1>>)) >>,
      RawCapsule(CLOSE_WEBTRANSPORT_SESSION, Bytes(<<0, 42>>)),
      SerializeCapsule(Datagram(<<>>))),
    \* three capsules, an ADDRESS_ASSIGN with an IPv4 prefix of length 33,
    \* and the first byte of another capsule
    MalformedAfterGood(<< CloseWebTransportSession(<<0, 42>>, Abc),
                          AddressRequest(<<P1>>), Datagram(<<>>) >>,
      RawCapsule(ADDRESS_ASSIGN, Bytes(<<0, 4, 10, 0, 0, 1, 33>>)),
      Bytes(<<64>>)) }
  \cup { [before |-> c.before, stream |-> c.stream] : c \in BadFamilyCases }

\* Streams with one complete ADDRESS_REQUEST, ADDRESS_ASSIGN or
\* ROUTE_ADVERTISEMENT capsule whose payload ends inside an element.
TruncatedElementCases ==
  { \* ADDRESS_REQUEST: one element, then the first byte of a 2-byte request id
    MalformedAfterGood(<<>>,
      RawCapsule(ADDRESS_REQUEST,
                 StrAppend(WirePrefixWithId(P1).bytes, Bytes(<<64>>))), <<>>),
    \* ADDRESS_REQUEST: one element, then a request id alone; a datagram
    \* follows
    MalformedAfterGood(<< Datagram(Abc) >>,
      RawCapsule(ADDRESS_REQUEST,
                 StrAppend(WirePrefixWithId(P1).bytes, Bytes(<<1>>))),
      SerializeCapsule(Datagram(<<>>))),
    \* ADDRESS_REQUEST: 3 of the 16 bytes of an IPv6 address
    MalformedAfterGood(<<>>,
      RawCapsule(ADDRESS_REQUEST, Bytes(<<1, 6, 0, 0, 0>>)), <<>>),
    \* ADDRESS_ASSIGN: one element, then an element without prefix length
    MalformedAfterGood(<< AddressAssign(<<P2>>) >>,
      RawCapsule(ADDRESS_ASSIGN,
                 StrAppend(WirePrefixWithId(P2).bytes,
                           Bytes(<<0, 4, 10, 0, 0, 1>>))), <<>>),
    \* ADDRESS_ASSIGN: two elements, then one byte of an IPv4 address
    MalformedAfterGood(<<>>,
      RawCapsule(ADDRESS_ASSIGN,
                 StrAppend(WirePrefixWithId(P4).bytes,
                 StrAppend(WirePrefixWithId(P5).bytes, Bytes(<<3, 4, 10>>)))),
      <<>>),
    \* ROUTE_ADVERTISEMENT: one range, then a family alone
    MalformedAfterGood(<<>>,
      RawCapsule(ROUTE_ADVERTISEMENT,
                 StrAppend(WireIpAddressRange(R1).bytes, Bytes(<<4>>))), <<>>),
    \* ROUTE_ADVERTISEMENT: two ranges, then a range without protocol; a
    \* datagram follows
    MalformedAfterGood(<< RouteAdvertisement(<<R1>>) >>,
      RawCapsule(ROUTE_ADVERTISEMENT,
                 StrAppend(WireIpAddressRange(R1).bytes,
                 StrAppend(WireIpAddressRange(R2).bytes,
                           Bytes(<<4, 10, 0, 0, 1, 10, 0, 0, 2>>)))),
      SerializeCapsule(Datagram(Abc))),
    \* ROUTE_ADVERTISEMENT: one range, then 3 of the 16 bytes of an end
    \* address
    MalformedAfterGood(<<>>,
      RawCapsule(ROUTE_ADVERTISEMENT,
                 StrAppend(WireIpAddressRange(R2).bytes,
                 StrAppend(Bytes(<<6>>), Run(0, 19)))), <<>>) }

\* Byte streams that are not the serialization of a list of capsules:
\* malformed capsules, capsules that never complete, trailing garbage.
RawStreams ==
  { \* CLOSE_WEBTRANSPORT_SESSION with a 2-byte payload, then a datagram
    Bytes(<<104, 67, 2, 0, 42, 0, 0>>),
    \* ROUTE_ADVERTISEMENT truncated inside the end address
    Bytes(<<192, 0, 0, 0, 158, 202, 106, 2, 6, 4, 10, 0, 0, 1, 10>>),
    \* a datagram followed by a lone byte of the next capsule's type
    Bytes(<<0, 3, 97, 98, 99, 64>>),
    \* two datagrams followed by a lone byte of the next capsule's type
    Bytes(<<0, 3, 97, 98, 99, 0, 0, 64>>),
    \* a datagram declaring 2 MiB, of which 1 MiB + 8 bytes follow
    StrAppend(Bytes(<<0, 128, 32, 0, 0>>),
              Run(97, kMaxCapsuleBufferSize + 8)),
    \* a datagram declaring 2^32 - 1 bytes, of which 3 MiB follow
    StrAppend(Bytes(<<0, 192, 0, 0, 0, 255, 255, 255>>),
              Run(255, 3 * kMaxCapsuleBufferSize)) }
  \cup { Scenario3, Scenario5 }
  \cup { c.stream : c \in NonCanonicalCases }
  \cup { c.stream : c \in BadFamilyCases }
  \cup { RawCapsule(CLOSE_WEBTRANSPORT_SESSION, Bytes(P)) :
           P \in { Q \in ClosePayloads : Len(Q) < 4 } }
  \cup { c.stream : c \in InvalidPrefixLengthCases }
  \cup { c.stream : c \in MalformedCases }
  \cup { c.stream : c \in TruncatedElementCases }

\* Capsules with a type or a request id of 2^62 or more, which no varint
\* encodes.
OverflowCapsules ==
  { Unknown(<<64, 0, 0, 0, 0, 0, 0, 0>>, Abc),
    Unknown(<<255, 255, 255, 255, 255, 255, 255, 255>>, <<>>),
    AddressRequest(<< P1, [P2 EXCEPT !.request_id = <<64, 0, 0, 0, 0, 0, 0, 0>>] >>),
    AddressAssign(<< [P1 EXCEPT !.request_id = <<128, 0, 0, 0, 0, 0, 0, 1>>] >>) }

Inputs ==
  { [serialized |-> TRUE, capsules |-> l, stream |-> SerializeAll(l)] :
      l \in CapsuleLists }
  \cup { [serialized |-> FALSE, capsules |-> <<>>, stream |-> s] :
           s \in RawStreams }
  \cup { [serialized |-> FALSE, capsules |-> <<c>>,
          stream |-> SerializeCapsule(c)] : c \in OverflowCapsules }

----------------------------------------------------------------------------
(* The parser driven by a caller and observed by its visitor *)

VARIABLES
  buffered_data_,            \* CapsuleParser::buffered_data_
  parsing_error_occurred_,   \* CapsuleParser::parsing_error_occurred_
  visitor_calls,             \* every callback the visitor received, in order
  input,                     \* the stream the caller feeds
  fed,                       \* how many bytes of it were ingested so far
  last,                      \* the last call made and what it returned
  hist,                      \* what happened over all calls
  cache_entries_,            \* SimpleSessionCache::cache_entries_
  cache_calls                \* the last calls made on the cache, at most two

vars == <<buffered_data_, parsing_error_occurred_, visitor_calls, input, fed,
          last, hist, cache_entries_, cache_calls>>

cache_vars == <<cache_entries_, cache_calls>>

parser_vars == <<buffered_data_, parsing_error_occurred_, visitor_calls, input,
                 fed, last, hist>>

\* A cache without entries: a function from server ids to sessions.
NoEntries == [s \in {} |-> 0]

NoCall ==
  [op |-> "none", result |-> TRUE, fragment_size |-> 0, calls_before |-> 0,
   failed_before |-> FALSE, appended |-> 0,
   residual |-> -1, delivered |-> 0, rejected |-> FALSE]

Init ==
  /\ buffered_data_ = <<>>
  /\ parsing_error_occurred_ = FALSE
  /\ visitor_calls = <<>>
  /\ input \in Inputs
  /\ fed = 0
  /\ last = NoCall
  /\ hist = [ingests |-> 0, late |-> 0, all_true |-> TRUE, erased |-> 0,
             rejected |-> FALSE, bug |-> FALSE, end_of_stream |-> FALSE,
             byte_at_a_time |-> TRUE]
  /\ cache_entries_ = NoEntries
  /\ cache_calls = <<>>

LargeFragments ==
  { kMaxCapsuleBufferSize - 1, kMaxCapsuleBufferSize,
    kMaxCapsuleBufferSize + 1, 2 * kMaxCapsuleBufferSize }

IsLarge(s) == size(s) > kMaxCapsuleBufferSize \div 2

FragmentSizes ==
  LET remaining == size(input.stream) - fed
  IN { n \in (0..MaxFragment) \cup LargeFragments \cup {remaining} :
         n <= remaining }

Ingest(n, visitor) ==
  \E r \in { IngestCapsuleFragment(buffered_data_, parsing_error_occurred_,
                                    substr(input.stream, fed, n), visitor) } :
     /\ buffered_data_' = r.buffered_data_
     /\ parsing_error_occurred_' = r.parsing_error_occurred_
     /\ visitor_calls' = visitor_calls \o r.calls
     /\ fed' = fed + n
     /\ last' = [op |-> "IngestCapsuleFragment", result |-> r.result,
                 fragment_size |-> n, calls_before |-> Len(visitor_calls),
                 failed_before |-> parsing_error_occurred_,
                 appended |-> r.appended, residual |-> r.residual,
                 delivered |-> r.delivered, rejected |-> r.rejected]
     /\ hist' = [hist EXCEPT
                   !.ingests = IF IsLarge(input.stream) THEN @ + 1 ELSE @,
                   !.late = IF parsing_error_occurred_ THEN @ + 1 ELSE @,
                   !.all_true = @ /\ r.result,
                   !.erased = @ + r.erased,
                   !.rejected = @ \/ r.rejected,
                   !.bug = @ \/ r.bug,
                   !.byte_at_a_time = @ /\ n = 1]
     /\ UNCHANGED <<input, cache_vars>>

\* The caller makes at most MaxLateCalls calls on a parser that has failed.
IngestStep ==
  /\ IsLarge(input.stream) => hist.ingests < MaxLargeCalls
  /\ parsing_error_occurred_ => hist.late < MaxLateCalls
  /\ \E n \in FragmentSizes : \E visitor \in 0..MaxVisitor : Ingest(n, visitor)

EndOfStream ==
  \E r \in { ErrorIfThereIsRemainingBufferedData(buffered_data_,
                                                  parsing_error_occurred_) } :
     /\ parsing_error_occurred_ => hist.late < MaxLateCalls
     /\ buffered_data_' = r.buffered_data_
     /\ parsing_error_occurred_' = r.parsing_error_occurred_
     /\ visitor_calls' = visitor_calls \o r.calls
     /\ last' = [NoCall EXCEPT
                   !.op = "ErrorIfThereIsRemainingBufferedData",
                   !.calls_before = Len(visitor_calls),
                   !.failed_before = parsing_error_occurred_,
                   !.appended = size(buffered_data_)]
     /\ hist' = [hist EXCEPT
                   !.late = IF parsing_error_occurred_ THEN @ + 1 ELSE @,
                   !.bug = @ \/ r.bug,
                   !.end_of_stream = TRUE]
     /\ UNCHANGED <<input, fed, cache_vars>>

Next == IngestStep \/ EndOfStream

Spec == Init /\ [][Next]_vars

----------------------------------------------------------------------------
(* SimpleSessionCache (simple_session_cache.cc), driven by a caller *)

MaxServerId == 2
MaxSession == 2

ServerIds == 1..MaxServerId

\* The sessions a caller inserts; 0 stands for no state, the null pointer.
Sessions == 1..MaxSession

\* Mutant: the entry stays in the cache after it was looked up.
Lookup_NoErase(cache_entries, server_id) ==
  IF server_id \notin DOMAIN cache_entries
  THEN [cache_entries_ |-> cache_entries, state |-> 0]
  ELSE [cache_entries_ |-> cache_entries, state |-> cache_entries[server_id]]

\* SimpleSessionCache::Insert: the entries after it.  insert() of a pair
\* adds nothing when the key has an entry.
Insert(cache_entries, server_id, session) ==
  IF server_id \in DOMAIN cache_entries
  THEN cache_entries
  ELSE [s \in DOMAIN cache_entries \cup {server_id} |->
          IF s = server_id THEN session ELSE cache_entries[s]]

\* SimpleSessionCache::Lookup: the entries after it and the session of the
\* state returned, 0 for nullptr.
Lookup(cache_entries, server_id) ==
  IF server_id \notin DOMAIN cache_entries
  THEN [cache_entries_ |-> cache_entries, state |-> 0]
  ELSE [cache_entries_ |-> [s \in DOMAIN cache_entries \ {server_id} |->
                              cache_entries[s]],
        state |-> cache_entries[server_id]]

\* The last two calls, the newest last.
Logged(call) ==
  IF Len(cache_calls) < 2 THEN Append(cache_calls, call)
  ELSE << cache_calls[2], call >>

InsertStep ==
  \E server_id \in ServerIds : \E session \in Sessions :
    /\ cache_entries_' = Insert(cache_entries_, server_id, session)
    /\ cache_calls' = Logged([op |-> "Insert", server_id |-> server_id,
                              session |-> session,
                              had_entry |-> server_id \in DOMAIN cache_entries_])
    /\ UNCHANGED parser_vars

LookupStep ==
  \E server_id \in ServerIds :
    \E r \in { Lookup(cache_entries_, server_id) } :
      /\ cache_entries_' = r.cache_entries_
      /\ cache_calls' = Logged([op |-> "Lookup", server_id |-> server_id,
                                session |-> r.state,
                                had_entry |-> server_id \in DOMAIN cache_entries_])
      /\ UNCHANGED parser_vars

\* The cache starts empty; the parser is not used.
CacheInit ==
  /\ cache_entries_ = NoEntries
  /\ cache_calls = <<>>
  /\ buffered_data_ = <<>>
  /\ parsing_error_occurred_ = FALSE
  /\ visitor_calls = <<>>
  /\ input = [serialized |-> TRUE, capsules |-> <<>>, stream |-> <<>>]
  /\ fed = 0
  /\ last = NoCall
  /\ hist = [ingests |-> 0, late |-> 0, all_true |-> TRUE, erased |-> 0,
             rejected |-> FALSE, bug |-> FALSE, end_of_stream |-> FALSE,
             byte_at_a_time |-> TRUE]

CacheNext == InsertStep \/ LookupStep

CacheSpec == CacheInit /\ [][CacheNext]_vars

----------------------------------------------------------------------------
(* What the visitor observed *)

OneMiB == 1048576

IsFailureCall(c) == c.cb = "OnCapsuleParseFailure"

IsCapsuleCall(c) == c.cb = "OnCapsule"

\* The capsules passed to OnCapsule so far, in order.
Delivered ==
  LET cs == SelectSeq(visitor_calls, IsCapsuleCall)
  IN [i \in DOMAIN cs |-> cs[i].capsule]

\* The messages passed to OnCapsuleParseFailure so far, in order.
Failures ==
  LET fs == SelectSeq(visitor_calls, IsFailureCall)
  IN [i \in DOMAIN fs |-> fs[i].error_message]

\* The callbacks made by the last call.
LastCalls == SubSeq(visitor_calls, last.calls_before + 1, Len(visitor_calls))

IsPrefixOf(a, b) == Len(a) <= Len(b) /\ a = SubSeq(b, 1, Len(a))

LastIsIngest == last.op = "IngestCapsuleFragment"

\* The last call was an ingest of the whole stream, and the first bytes the
\* parser ever received.
WholeStreamInOneIngest ==
  /\ LastIsIngest
  /\ last.fragment_size = size(input.stream)
  /\ fed = size(input.stream)
  /\ last.calls_before = 0
  /\ ~last.failed_before

\* The visitor accepted every capsule and only ingest calls had an effect.
CleanRun == ~hist.rejected /\ ~hist.end_of_stream

WireSizes == { size(SerializeCapsule(input.capsules[i])) :
                 i \in DOMAIN input.capsules }

----------------------------------------------------------------------------
(* Claims *)

\* C1: sticky failure. Once parsing_error_occurred_ is true it stays true,
\* every later ingest call returns false, no later call invokes OnCapsule or
\* OnCapsuleParseFailure, and OnCapsuleParseFailure is invoked at most once in
\* the parser's lifetime.
C1_StickyFailure ==
  /\ [][parsing_error_occurred_ =>
          /\ parsing_error_occurred_'
          /\ visitor_calls' = visitor_calls
          /\ (last'.op = "IngestCapsuleFragment" => ~last'.result)]_vars
  /\ [](Len(Failures) <= 1)

\* A failed parser was fed a non-empty fragment that completes a capsule the
\* buffer still held the beginning of.
C1_Witness ==
  /\ parsing_error_occurred_
  /\ LastIsIngest /\ last.failed_before /\ last.fragment_size > 0
  /\ buffered_data_ # <<>>
  /\ fed = size(input.stream)
  /\ input.serialized

\* C2 as claimed: fragmentation invariance. For every stream that is the
\* serialization of capsules c1..cn, fed in fragments to a fresh parser whose
\* visitor accepts everything, every ingest returns true, no failure is
\* reported, the capsules delivered are a prefix of c1..cn and, once the
\* whole stream is fed, exactly c1..cn.
C2_Original ==
  (input.serialized /\ CleanRun) =>
     /\ hist.all_true
     /\ Failures = <<>>
     /\ IsPrefixOf(Delivered, input.capsules)
     /\ fed = size(input.stream) => Delivered = input.capsules

\* C2 as amended: the same, for streams of capsules whose serializations are
\* each at most 1 MiB + 1 byte long, so that the incomplete capsule the parser
\* holds between calls never exceeds 1 MiB.
C2_FragmentationInvariance ==
  (/\ input.serialized /\ CleanRun
   /\ \A n \in WireSizes : n <= OneMiB + 1) =>
     /\ hist.all_true
     /\ Failures = <<>>
     /\ IsPrefixOf(Delivered, input.capsules)
     /\ fed = size(input.stream) => Delivered = input.capsules

\* Three capsules were delivered from a stream fed in more than one fragment.
C2_Witness ==
  /\ input.serialized /\ CleanRun
  /\ Len(input.capsules) = 3
  /\ fed = size(input.stream)
  /\ LastIsIngest /\ last.fragment_size = 1 /\ last.delivered = 1
  /\ Delivered = input.capsules

\* C3 as claimed: in every failed state the buffer is empty.
C3_FailedBufferEmpty == parsing_error_occurred_ => buffered_data_ = <<>>

\* C4: stream-order delivery. The capsules passed to OnCapsule are always a
\* prefix of the capsules the stream was serialized from, and one ingest of
\* S(c1) || S(c2) calls OnCapsule(c1) and then OnCapsule(c2) within that call.
C4_StreamOrder ==
  input.serialized =>
     /\ IsPrefixOf(Delivered, input.capsules)
     /\ (WholeStreamInOneIngest /\ ~hist.rejected
         /\ Len(input.capsules) = 2) =>
           LastCalls = << OnCapsule(input.capsules[1]),
                          OnCapsule(input.capsules[2]) >>

\* Two different capsules were delivered by a single ingest call.
C4_Witness ==
  /\ input.serialized /\ WholeStreamInOneIngest
  /\ Len(input.capsules) = 2
  /\ input.capsules[1] # input.capsules[2]
  /\ last.delivered = 2
  /\ Len(visitor_calls) = 2

\* C5: round trip for known variants. Feeding serialize(c), c of a known
\* type, to a fresh parser in one ingest call makes the visitor observe
\* exactly OnCapsule(c) and no failure, and the call returns true.
C5_RoundTripKnown ==
  (/\ input.serialized /\ Len(input.capsules) = 1
   /\ input.capsules[1].capsule_type \in KnownTypes
   /\ WholeStreamInOneIngest /\ ~hist.rejected) =>
     /\ visitor_calls = << OnCapsule(input.capsules[1]) >>
     /\ last.result
     /\ ~parsing_error_occurred_

\* An ADDRESS_REQUEST with an IPv6 prefix and the largest request id made
\* the round trip.
C5_Witness ==
  /\ input.serialized /\ WholeStreamInOneIngest
  /\ input.capsules = << AddressRequest(<<P3>>) >>
  /\ Delivered = input.capsules

\* C6: round trip for unknown types. Feeding serialize(Unknown{t, d}), t not
\* a known code, delivers exactly Unknown{t, d} and no failure.
C6_RoundTripUnknown ==
  (/\ input.serialized /\ Len(input.capsules) = 1
   /\ input.capsules[1].capsule_type \notin KnownTypes
   /\ WholeStreamInOneIngest /\ ~hist.rejected) =>
     /\ visitor_calls = << OnCapsule(input.capsules[1]) >>
     /\ visitor_calls[1].capsule.capsule_type = input.capsules[1].capsule_type
     /\ visitor_calls[1].capsule.unknown_capsule_data
          = input.capsules[1].unknown_capsule_data
     /\ last.result
     /\ ~parsing_error_occurred_

\* The unknown capsule with the largest type code, 2^62 - 1, made the round
\* trip.
C6_Witness ==
  /\ input.serialized /\ WholeStreamInOneIngest
  /\ input.capsules = << Unknown(MaxVarInt62, Abc) >>
  /\ Delivered = input.capsules

\* C7: buffer cap. An ingest call on an OK parser reports "Refusing to buffer
\* too much capsule data" exactly when the parse loop ended without error and
\* the bytes ingested so far less the bytes of the extracted capsules number
\* more than 1048576; the call then returns false.
C7_BufferCap ==
  (LastIsIngest /\ ~last.failed_before) =>
     /\ ("Refusing to buffer too much capsule data" \in
           { LastCalls[i].error_message : i \in DOMAIN LastCalls })
        <=> (last.residual >= 0 /\ fed - hist.erased > OneMiB)
     /\ last.residual >= 0 => last.residual = fed - hist.erased
     /\ (last.residual >= 0 /\ last.residual <= OneMiB) =>
           (last.result /\ size(buffered_data_) = last.residual)

\* A residual of exactly 1048576 bytes was accepted.
C7_Witness ==
  /\ LastIsIngest /\ ~last.failed_before
  /\ last.residual = OneMiB
  /\ last.result /\ ~parsing_error_occurred_

\* C8 as claimed: when data that never completes a capsule is fed, the parser
\* fails with the cap message once more than 1 MiB was fed, and the buffer
\* never holds more than 1 MiB plus the 16 bytes of the largest header.
NeverCompletes == ~input.serialized /\ IsLarge(input.stream)

C8_Original ==
  (NeverCompletes /\ ~hist.end_of_stream) =>
     /\ fed > OneMiB =>
          (/\ parsing_error_occurred_
           /\ Failures = << "Refusing to buffer too much capsule data" >>)
     /\ LastIsIngest => last.appended <= OneMiB + 16

\* C8 as amended: the parser fails with the cap message in the first ingest
\* call that leaves more than 1 MiB buffered, and the buffer never holds more
\* than 1 MiB plus the fragment being ingested.
C8_NeverCompleting ==
  (NeverCompletes /\ ~hist.end_of_stream) =>
     /\ fed > OneMiB =>
          (/\ parsing_error_occurred_
           /\ visitor_calls = << OnCapsuleParseFailure(
                                   "Refusing to buffer too much capsule data") >>)
     /\ fed <= OneMiB => (~parsing_error_occurred_ /\ visitor_calls = <<>>)
     /\ (LastIsIngest /\ ~last.failed_before) =>
          last.appended <= OneMiB + last.fragment_size

\* A fragment took the never-completing data from exactly 1 MiB to more, and
\* the parser failed in that call.
C8_Witness ==
  /\ NeverCompletes /\ ~hist.end_of_stream
  /\ LastIsIngest /\ ~last.failed_before
  /\ last.appended - last.fragment_size = OneMiB
  /\ last.appended > OneMiB + 16
  /\ parsing_error_occurred_

\* C9: bounded memory between calls. In every state the buffer holds at most
\* 1048576 bytes.
C9_BoundedBuffer == size(buffered_data_) <= OneMiB

\* The buffer holds exactly 1048576 bytes after an ingest call returned true.
C9_Witness ==
  /\ LastIsIngest /\ last.result
  /\ size(buffered_data_) = OneMiB

\* C10: visitor rejection. Once OnCapsule returned false the parser is
\* failed, the call returns false, the last two callbacks ever made are the
\* rejected OnCapsule and OnCapsuleParseFailure("Visitor failed to process
\* capsule"), and that is the only failure reported.
C10_VisitorRejection ==
  hist.rejected =>
     /\ parsing_error_occurred_
     /\ LastIsIngest => ~last.result
     /\ Len(visitor_calls) >= 2
     /\ IsCapsuleCall(visitor_calls[Len(visitor_calls) - 1])
     /\ visitor_calls[Len(visitor_calls)]
          = OnCapsuleParseFailure("Visitor failed to process capsule")
     /\ Len(Failures) = 1
     /\ last.rejected => Len(LastCalls) = last.delivered + 1

\* The visitor rejected the first of two capsules that arrived complete in one
\* fragment; the second was not delivered.
C10_Witness ==
  /\ input.serialized /\ WholeStreamInOneIngest
  /\ Len(input.capsules) = 2
  /\ last.rejected /\ last.delivered = 1
  /\ Delivered = << input.capsules[1] >>

\* C11: end of stream. ErrorIfThereIsRemainingBufferedData on an OK parser
\* calls OnCapsuleParseFailure("Incomplete capsule left at the end of the
\* stream") and fails the parser exactly when the buffer is not empty; with an
\* empty buffer it calls nothing and leaves the parser OK, and the ingest calls
\* that follow deliver the capsules of the stream as if it had not been
\* called; on a failed parser it calls nothing.  It never calls OnCapsule.
LastIsEndOfStream == last.op = "ErrorIfThereIsRemainingBufferedData"

C11_EndOfStream ==
  /\ LastIsEndOfStream =>
       /\ \A i \in DOMAIN LastCalls : ~IsCapsuleCall(LastCalls[i])
       /\ last.failed_before =>
            (LastCalls = <<>> /\ parsing_error_occurred_)
       /\ (~last.failed_before /\ last.appended > 0) =>
            /\ LastCalls = << OnCapsuleParseFailure(
                   "Incomplete capsule left at the end of the stream") >>
            /\ parsing_error_occurred_
       /\ (~last.failed_before /\ last.appended = 0) =>
            (LastCalls = <<>> /\ ~parsing_error_occurred_)
  /\ (/\ input.serialized /\ ~hist.rejected /\ Failures = <<>>
      /\ \A n \in WireSizes : n <= OneMiB + 1) =>
       /\ hist.all_true
       /\ IsPrefixOf(Delivered, input.capsules)
       /\ fed = size(input.stream) => Delivered = input.capsules

\* A complete datagram followed by a lone byte of the next capsule was
\* ingested, the datagram was delivered, and the end of the stream was then
\* declared with that byte still buffered.
C11_Witness ==
  /\ LastIsEndOfStream /\ ~last.failed_before
  /\ input.stream = Bytes(<<0, 3, 97, 98, 99, 64>>)
  /\ fed = 6 /\ last.appended = 1
  /\ Delivered = << Datagram(Abc) >>
  /\ Failures = << "Incomplete capsule left at the end of the stream" >>

\* C12: the value an ingest call returns is the parser's state at return. It
\* is true exactly when parsing_error_occurred_ is false, and that flag is set
\* exactly when a parse failure was reported to the visitor, by an ingest call
\* or by ErrorIfThereIsRemainingBufferedData.
C12_ResultIsState ==
  /\ LastIsIngest => (last.result <=> ~parsing_error_occurred_)
  /\ parsing_error_occurred_ <=> Failures # <<>>

\* An ingest call returned false on a parser that the end of the stream had
\* failed.
C12_Witness ==
  /\ LastIsIngest /\ last.failed_before /\ ~last.result
  /\ last.fragment_size > 0
  /\ hist.end_of_stream
  /\ Failures = << "Incomplete capsule left at the end of the stream" >>

\* The buffer the last ingest call made its last extraction attempt on: the
\* bytes fed so far less the capsules erased (on a parser that had not failed
\* before the call, whose buffer was therefore never cleared).
LastAttempted == substr(input.stream, hist.erased, fed - hist.erased)

\* The buffer does not hold a whole capsule: reading the type, the length or
\* the payload bytes comes up short.
CapsuleIncomplete(b) ==
  /\ b # <<>>
  /\ Let(ReadVarInt62(QuicheDataReader(b)), LAMBDA capsule_type64 :
         \/ ~capsule_type64.ok
         \/ ~ReadStringPieceVarInt62(capsule_type64.reader).ok)

\* The failures reported when a read inside a capsule's payload comes up
\* short.
ShortReadMessages ==
  { "Unable to parse capsule CLOSE_WEBTRANSPORT_SESSION error code",
    "Unable to parse capsule ADDRESS_REQUEST request ID",
    "Unable to parse capsule ADDRESS_REQUEST family",
    "Unable to read capsule ADDRESS_REQUEST address",
    "Unable to parse capsule ADDRESS_REQUEST IP prefix length",
    "Unable to parse capsule ADDRESS_ASSIGN request ID",
    "Unable to parse capsule ADDRESS_ASSIGN family",
    "Unable to read capsule ADDRESS_ASSIGN address",
    "Unable to parse capsule ADDRESS_ASSIGN IP prefix length",
    "Unable to parse capsule ROUTE_ADVERTISEMENT family",
    "Unable to read capsule ROUTE_ADVERTISEMENT start address",
    "Unable to read capsule ROUTE_ADVERTISEMENT end address",
    "Unable to parse capsule ROUTE_ADVERTISEMENT IP protocol" }

\* C13 as claimed: short reads. No read that comes up short during an
\* extraction attempt is reported as a failure: the parser stays OK.
C13_Original ==
  \A i \in DOMAIN Failures : Failures[i] \notin ShortReadMessages

\* C13 as amended: when reading the capsule type, the payload length or the
\* payload bytes comes up short, the attempt consumes nothing and reports
\* nothing, and the call keeps the bytes and returns true unless they number
\* more than 1 MiB; a read that comes up short inside the payload of a whole
\* capsule is reported as a parse failure and the call returns false.
C13_ShortReads ==
  (LastIsIngest /\ ~last.failed_before) =>
     /\ CapsuleIncomplete(LastAttempted) =>
          /\ last.residual = size(LastAttempted)
          /\ \A i \in DOMAIN LastCalls :
                LastCalls[i].error_message \notin ShortReadMessages
          /\ last.residual <= OneMiB =>
               /\ last.result /\ ~parsing_error_occurred_
               /\ buffered_data_ = LastAttempted
               /\ Failures = <<>>
     /\ (Failures # <<>> /\ Failures[1] \in ShortReadMessages) =>
          /\ ~CapsuleIncomplete(LastAttempted)
          /\ LastAttempted # <<>>
          /\ ~last.result /\ parsing_error_occurred_
          /\ buffered_data_ = <<>>

\* The parser waits with the type, the length and two of the nine payload
\* bytes of a CLOSE_WEBTRANSPORT_SESSION capsule.
C13_Witness ==
  /\ LastIsIngest /\ ~last.failed_before
  /\ input.capsules = << CloseWebTransportSession(<<0, 42>>, Hello) >>
  /\ fed = 5
  /\ CapsuleIncomplete(LastAttempted)
  /\ buffered_data_ = Bytes(<<104, 67, 9, 0, 0>>)
  /\ last.result /\ visitor_calls = <<>>

\* C14: IP family validation. When a whole ADDRESS_REQUEST, ADDRESS_ASSIGN or
\* ROUTE_ADVERTISEMENT capsule with an element of a family other than 4 and 6
\* has been ingested, the parser has failed with "Bad <name> family" and has
\* delivered only the capsules that precede it, however many well-formed
\* elements come before the bad one; until the capsule is whole, nothing is
\* reported.
BadFamilyMessage(name) ==
  CASE name = "ADDRESS_REQUEST" -> "Bad ADDRESS_REQUEST family"
    [] name = "ADDRESS_ASSIGN" -> "Bad ADDRESS_ASSIGN family"
    [] name = "ROUTE_ADVERTISEMENT" -> "Bad ROUTE_ADVERTISEMENT family"

C14_FamilyValidation ==
  \A c \in BadFamilyCases :
    (input.stream = c.stream /\ CleanRun) =>
       /\ IsPrefixOf(Delivered, c.before)
       /\ Failures # <<>> =>
            /\ Failures = << BadFamilyMessage(c.name) >>
            /\ Delivered = c.before
            /\ parsing_error_occurred_
       /\ fed = size(c.stream) => Failures # <<>>

\* An ADDRESS_REQUEST capsule whose third element has family 5 failed the
\* parser in the ingest call that brought its last byte.
C14_Witness ==
  /\ CleanRun /\ LastIsIngest /\ ~last.failed_before
  /\ input.stream = RawCapsule(ADDRESS_REQUEST,
                       StrAppend(WirePrefixWithId(P1).bytes,
                       StrAppend(WirePrefixWithId(P2).bytes,
                                 Bytes(<<0, 5, 10, 0, 0, 1, 32>>))))
  /\ fed = size(input.stream) /\ last.fragment_size = 1
  /\ visitor_calls = << OnCapsuleParseFailure("Bad ADDRESS_REQUEST family") >>

\* C15: prefix length bound. A whole ADDRESS_REQUEST or ADDRESS_ASSIGN capsule
\* with an IPv4 element of prefix length 33 or an IPv6 element of prefix
\* length 129 fails the parser with "Invalid IP prefix length" and is not
\* delivered; capsules whose elements have prefix lengths 0, 24 and 32 (IPv4)
\* and 0 and 128 (IPv6) are delivered without failure.
AddressCapsuleTypes == { ADDRESS_REQUEST, ADDRESS_ASSIGN }

C15_PrefixLength ==
  /\ \A c \in InvalidPrefixLengthCases :
       (input.stream = c.stream /\ CleanRun) =>
          /\ Delivered = <<>>
          /\ Failures # <<>> =>
               /\ Failures = << "Invalid IP prefix length" >>
               /\ parsing_error_occurred_
          /\ fed = size(c.stream) => Failures # <<>>
  /\ (/\ input.serialized /\ CleanRun /\ Len(input.capsules) = 1
      /\ input.capsules[1].capsule_type \in AddressCapsuleTypes) =>
       /\ Failures = <<>>
       /\ fed = size(input.stream) => Delivered = input.capsules

\* An ADDRESS_ASSIGN capsule with an IPv6 prefix of length 128 followed by one
\* of length 129 failed the parser.
C15_Witness ==
  /\ CleanRun /\ LastIsIngest /\ ~last.failed_before
  /\ input.stream = RawCapsule(ADDRESS_ASSIGN,
                       StrAppend(WirePrefixWithId(P3).bytes,
                       StrAppend(Bytes(<<2, 6>>),
                       StrAppend(Run(0, 16), Bytes(<<129>>)))))
  /\ fed = size(input.stream)
  /\ visitor_calls = << OnCapsuleParseFailure("Invalid IP prefix length") >>

\* C16: CLOSE_WEBTRANSPORT_SESSION parsing. Once a whole capsule of that type
\* with payload P has been ingested: if P has at least 4 bytes, exactly one
\* capsule was delivered, with error_code the big-endian value of P[0..3] and
\* error_message P[4..]; if P has fewer than 4 bytes, nothing was delivered
\* and the parser failed with "Unable to parse capsule
\* CLOSE_WEBTRANSPORT_SESSION error code".
C16_CloseWebTransportSession ==
  \A P \in ClosePayloads :
    (/\ input.stream = RawCapsule(CLOSE_WEBTRANSPORT_SESSION, Bytes(P))
     /\ CleanRun) =>
       /\ fed < size(input.stream) => visitor_calls = <<>>
       /\ (fed = size(input.stream) /\ Len(P) >= 4) =>
            /\ visitor_calls =
                 << OnCapsule(
                      [capsule_type |-> CLOSE_WEBTRANSPORT_SESSION,
                       error_code |-> << P[1] * 256 + P[2],
                                         P[3] * 256 + P[4] >>,
                       error_message |-> Bytes(SubSeq(P, 5, Len(P)))]) >>
            /\ ~parsing_error_occurred_
       /\ (fed = size(input.stream) /\ Len(P) < 4) =>
            /\ visitor_calls =
                 << OnCapsuleParseFailure(
                      "Unable to parse capsule CLOSE_WEBTRANSPORT_SESSION error code") >>
            /\ parsing_error_occurred_

\* A capsule whose payload is the four bytes of the error code 0x12345678 was
\* delivered with an empty error message.
C16_Witness ==
  /\ CleanRun /\ LastIsIngest
  /\ input.stream = Bytes(<<104, 67, 4, 18, 52, 86, 120>>)
  /\ fed = 7
  /\ Delivered = << CloseWebTransportSession(<<4660, 22136>>, <<>>) >>

\* The payload the wire format prescribes for a capsule, byte by byte.
PrefixWithIdBytes(p) ==
  StrAppend(WriteVarInt62(p.request_id).bytes,
  StrAppend(Bytes(<< IF p.ip_prefix.address.family = "IP_V4" THEN 4 ELSE 6 >>),
  StrAppend(p.ip_prefix.address.packed,
            Bytes(<< p.ip_prefix.prefix_length >>))))

IpAddressRangeBytes(r) ==
  StrAppend(Bytes(<< IF r.start_ip_address.family = "IP_V4" THEN 4 ELSE 6 >>),
  StrAppend(r.start_ip_address.packed,
  StrAppend(r.end_ip_address.packed, Bytes(<< r.ip_protocol >>))))

RECURSIVE PrefixesBytes(_)
PrefixesBytes(l) ==
  IF l = <<>> THEN <<>>
  ELSE StrAppend(PrefixWithIdBytes(l[1]), PrefixesBytes(Tail(l)))

RECURSIVE RangesBytes(_)
RangesBytes(l) ==
  IF l = <<>> THEN <<>>
  ELSE StrAppend(IpAddressRangeBytes(l[1]), RangesBytes(Tail(l)))

PayloadBytes(c) ==
  CASE c.capsule_type \in { DATAGRAM, LEGACY_DATAGRAM,
                            LEGACY_DATAGRAM_WITHOUT_CONTEXT } ->
         c.http_datagram_payload
    [] c.capsule_type = CLOSE_WEBTRANSPORT_SESSION ->
         StrAppend(Bytes(<< c.error_code[1] \div 256, c.error_code[1] % 256,
                            c.error_code[2] \div 256, c.error_code[2] % 256 >>),
                   c.error_message)
    [] c.capsule_type = ADDRESS_REQUEST -> PrefixesBytes(c.requested_addresses)
    [] c.capsule_type = ADDRESS_ASSIGN -> PrefixesBytes(c.assigned_addresses)
    [] c.capsule_type = ROUTE_ADVERTISEMENT -> RangesBytes(c.ip_address_ranges)
    [] OTHER -> c.unknown_capsule_data

\* The serialization of c is varint(type) || varint(n) || payload with n the
\* number of payload bytes, and nothing else.
WireLayout(c) ==
  \E out \in { SerializeCapsuleWithStatus(c) } :
    out.ok =>
      \E t \in { ReadVarInt62(QuicheDataReader(out.buffer)) } :
        /\ t.ok /\ t.value = c.capsule_type
        /\ t.reader.pos = GetVarInt62Len(c.capsule_type)
        /\ \E n \in { ReadVarInt62(t.reader) } :
             /\ n.ok /\ FitsInt(n.value)
             /\ n.reader.pos - t.reader.pos = GetVarInt62Len(n.value)
             /\ ToInt(n.value) = size(PayloadBytes(c))
             /\ erase(out.buffer, n.reader.pos) = PayloadBytes(c)
             /\ size(out.buffer) = GetVarInt62Len(c.capsule_type)
                  + GetVarInt62Len(n.value) + ToInt(n.value)

\* C17: wire layout of serialization. Every capsule the stream was serialized
\* from has the serialization varint(type) || varint(n) || payload, where
\* payload is the encoding of its variant and n the number of payload bytes;
\* the buffer is as long as the three together.
C17_WireLayout ==
  input.serialized =>
    \A i \in DOMAIN input.capsules : WireLayout(input.capsules[i])

\* A ROUTE_ADVERTISEMENT with two IPv4 ranges was serialized into 8 bytes of
\* type, 1 byte of length and 20 bytes of payload, and parsed back.
C17_Witness ==
  /\ input.serialized
  /\ input.capsules = << RouteAdvertisement(<<R3, R1>>) >>
  /\ size(input.stream) = 29
  /\ at(input.stream, 8) = 20
  /\ fed = 29 /\ Delivered = input.capsules

\* The length of the shortest varint form that holds the value.
ShortestLen(v) ==
  IF \A i \in 1..7 : v[i] = 0 THEN (IF v[8] < 64 THEN 1 ELSE 2)
  ELSE IF \A i \in 1..6 : v[i] = 0 THEN (IF v[7] < 64 THEN 2 ELSE 4)
  ELSE IF \A i \in 1..4 : v[i] = 0 THEN (IF v[5] < 64 THEN 4 ELSE 8)
  ELSE 8

\* The request ids of the elements l, read from the reader r, are each written
\* in the shortest form.
RECURSIVE RequestIdsShortest(_, _)
RequestIdsShortest(r, l) ==
  \/ l = <<>>
  \/ \E id \in { ReadVarInt62(r) } :
       /\ id.ok /\ id.value = l[1].request_id
       /\ id.reader.pos - r.pos = ShortestLen(l[1].request_id)
       /\ RequestIdsShortest(
            [r EXCEPT !.pos = id.reader.pos + 1
                                + size(l[1].ip_prefix.address.packed) + 1],
            Tail(l))

\* The type, the payload length and the request ids in the serialization of c
\* are in the shortest form.
WrittenShortest(c) ==
  \E t \in { ReadVarInt62(QuicheDataReader(SerializeCapsule(c))) } :
    /\ t.ok /\ t.reader.pos = ShortestLen(t.value)
    /\ \E n \in { ReadVarInt62(t.reader) } :
         /\ n.ok /\ n.reader.pos - t.reader.pos = ShortestLen(n.value)
         /\ c.capsule_type = ADDRESS_REQUEST =>
              RequestIdsShortest(n.reader, c.requested_addresses)
         /\ c.capsule_type = ADDRESS_ASSIGN =>
              RequestIdsShortest(n.reader, c.assigned_addresses)

\* C18: varint canonicality on write, permissiveness on read. The serializer
\* writes the capsule type, the payload length and the request ids in the
\* shortest varint form; a capsule whose type, length or request id is written
\* in a longer form is delivered as the capsule its canonical encoding stands
\* for, and that canonical encoding is shorter.
C18_Varints ==
  /\ input.serialized =>
       \A i \in DOMAIN input.capsules : WrittenShortest(input.capsules[i])
  /\ \A c \in NonCanonicalCases :
       (input.stream = c.stream /\ CleanRun) =>
          /\ size(SerializeCapsule(c.capsule)) < size(c.stream)
          /\ fed < size(c.stream) => visitor_calls = <<>>
          /\ fed = size(c.stream) =>
               /\ visitor_calls = << OnCapsule(c.capsule) >>
               /\ ~parsing_error_occurred_ /\ buffered_data_ = <<>>

\* An ADDRESS_REQUEST whose length is written in 8 bytes and whose request id
\* is written in 4 bytes was delivered.
C18_Witness ==
  /\ CleanRun /\ LastIsIngest
  /\ size(input.stream) = 26 /\ fed = 26
  /\ at(input.stream, 8) = 192 /\ at(input.stream, 16) = 128
  /\ Delivered = << AddressRequest(<<P1>>) >>

\* C19 as claimed: one ingest of the bytes 0x40 0x28 0x43 0x08 0x00 0x00 0x00
\* 0x2A "hello" on a fresh parser makes the visitor see exactly one capsule,
\* CloseWebTransportSession with error_code 42 and error_message "hello".
C19_Original ==
  (input.stream = Scenario3 /\ WholeStreamInOneIngest /\ ~hist.rejected) =>
     visitor_calls = << OnCapsule(CloseWebTransportSession(<<0, 42>>, Hello)) >>

\* C19 as amended: those bytes start a capsule of the unknown type 0x28 (the
\* 2-byte varint 0x40 0x28) that declares 776 payload bytes (the 2-byte varint
\* 0x43 0x08), so the call returns true, the visitor sees nothing and the 13
\* bytes stay buffered; it is one ingest of 0x68 0x43 0x09 0x00 0x00 0x00 0x2A
\* "hello" that delivers exactly CloseWebTransportSession{42, "hello"}.
C19_Scenario3 ==
  /\ (input.stream = Scenario3 /\ WholeStreamInOneIngest) =>
       /\ visitor_calls = <<>>
       /\ last.result /\ ~parsing_error_occurred_
       /\ buffered_data_ = Scenario3
       /\ \E t \in { ReadVarInt62(QuicheDataReader(buffered_data_)) } :
            /\ t.value = U64(40)
            /\ ReadVarInt62(t.reader).value = U64(776)
  /\ (/\ input.stream = Bytes(<<104, 67, 9, 0, 0, 0, 42,
                                104, 101, 108, 108, 111>>)
      /\ WholeStreamInOneIngest /\ ~hist.rejected) =>
       /\ visitor_calls =
            << OnCapsule(CloseWebTransportSession(<<0, 42>>, Hello)) >>
       /\ last.result /\ buffered_data_ = <<>>

\* The 13 bytes of the scenario were ingested in one call and are all
\* buffered.
C19_Witness ==
  /\ input.stream = Scenario3 /\ WholeStreamInOneIngest
  /\ last.fragment_size = 13 /\ size(buffered_data_) = 13
  /\ last.result

\* C20 as claimed: one ingest of the 13 bytes 0x80 0x9E 0xCA 0x6A 0x00 0x07
\* 0x00 0x04 0x0A 0x00 0x00 0x01 0x20 on a fresh parser makes the visitor see
\* exactly one capsule, the ADDRESS_REQUEST with the single element
\* {request id 0, 10.0.0.1/32}, and leaves nothing buffered.
C20_Original ==
  (input.stream = Scenario5 /\ WholeStreamInOneIngest /\ ~hist.rejected) =>
     /\ visitor_calls = << OnCapsule(AddressRequest(<<P1>>)) >>
     /\ buffered_data_ = <<>>

\* C20 as amended: those bytes are the capsule of unknown type 0x9ECA6A with
\* no payload (4-byte varint 0x80 0x9E 0xCA 0x6A, length 0x00), the capsule of
\* unknown type 0x07 with no payload, and the first 6 bytes of a capsule of
\* type 0x04 that declares 10 payload bytes: the visitor sees the two unknown
\* capsules, the call returns true and 6 bytes stay buffered.  It is one
\* ingest of the serialization of the ADDRESS_REQUEST, 8 bytes of type, the
\* length 0x07 and the 7 bytes 0x00 0x04 0x0A 0x00 0x00 0x01 0x20, that
\* delivers it and leaves nothing buffered.
C20_Scenario5 ==
  /\ (input.stream = Scenario5 /\ WholeStreamInOneIngest /\ ~hist.rejected) =>
       /\ visitor_calls =
            << OnCapsule(Unknown(<<0, 0, 0, 0, 0, 158, 202, 106>>, <<>>)),
               OnCapsule(Unknown(U64(7), <<>>)) >>
       /\ last.result /\ ~parsing_error_occurred_
       /\ buffered_data_ = Bytes(<<4, 10, 0, 0, 1, 32>>)
  /\ (/\ input.stream = StrAppend(WriteVarInt62(ADDRESS_REQUEST).bytes,
                                  Bytes(<<7, 0, 4, 10, 0, 0, 1, 32>>))
      /\ WholeStreamInOneIngest /\ ~hist.rejected) =>
       /\ visitor_calls = << OnCapsule(AddressRequest(<<P1>>)) >>
       /\ last.result /\ buffered_data_ = <<>>

\* The 13 bytes of the scenario were ingested in one call, which delivered
\* two capsules and kept 6 bytes.
C20_Witness ==
  /\ input.stream = Scenario5 /\ WholeStreamInOneIngest
  /\ last.fragment_size = 13 /\ last.delivered = 2
  /\ size(buffered_data_) = 6

\* The types whose payload the parser takes apart.
StructuredTypes ==
  { CLOSE_WEBTRANSPORT_SESSION, ADDRESS_REQUEST, ADDRESS_ASSIGN,
    ROUTE_ADVERTISEMENT }

\* The capsule of type t whose raw payload is p.
RawBytesCapsule(t, p) ==
  IF t \in { DATAGRAM, LEGACY_DATAGRAM, LEGACY_DATAGRAM_WITHOUT_CONTEXT }
  THEN [capsule_type |-> t, http_datagram_payload |-> p]
  ELSE [capsule_type |-> t, unknown_capsule_data |-> p]

\* C21: raw-bytes variants. When the stream is one whole capsule whose type is
\* DATAGRAM, LEGACY_DATAGRAM, LEGACY_DATAGRAM_WITHOUT_CONTEXT or an unknown
\* code, and it reaches the buffer whole (it is ingested in one call, or is
\* short enough for the buffer to hold all but its last byte), the visitor has
\* seen, once the stream is ingested, exactly one capsule, of that type and
\* with the bytes after the two header varints as its payload; 0x00 0x00 gives the datagram with the empty payload and 0x00
\* 0x03 "abc" the datagram "abc".
C21_RawBytes ==
  /\ \E t \in { ReadVarInt62(QuicheDataReader(input.stream)) } :
       \E n \in { ReadVarInt62(t.reader) } :
         (/\ t.ok /\ n.ok /\ FitsInt(n.value)
          /\ size(input.stream) = n.reader.pos + ToInt(n.value)
          /\ t.value \notin StructuredTypes
          /\ size(input.stream) <= OneMiB + 1 \/ WholeStreamInOneIngest
          /\ CleanRun /\ fed = size(input.stream)) =>
            /\ visitor_calls =
                 << OnCapsule(RawBytesCapsule(
                                t.value, erase(input.stream, n.reader.pos))) >>
            /\ ~parsing_error_occurred_
  /\ (input.stream = Bytes(<<0, 0>>) /\ CleanRun /\ fed = 2) =>
       Delivered = << Datagram(<<>>) >>
  /\ (input.stream = Bytes(<<0, 3, 97, 98, 99>>) /\ CleanRun /\ fed = 5) =>
       Delivered = << Datagram(Abc) >>

\* The two bytes 0x00 0x00 were ingested and the datagram with the empty
\* payload was delivered.
C21_Witness ==
  /\ input.stream = Bytes(<<0, 0>>) /\ CleanRun /\ LastIsIngest
  /\ fed = 2
  /\ visitor_calls = << OnCapsule(Datagram(<<>>)) >>

\* C22: byte-at-a-time delivery. When the serialization of one capsule, at
\* most 1 MiB long, is fed to a fresh parser one byte per ingest call, every
\* call returns true, no callback is made before the call that supplies the
\* last byte, and that call invokes OnCapsule exactly once, with the capsule.
C22_ByteAtATime ==
  (/\ input.serialized /\ Len(input.capsules) = 1
   /\ size(input.stream) <= OneMiB
   /\ hist.byte_at_a_time /\ CleanRun) =>
     /\ hist.all_true
     /\ fed < size(input.stream) => visitor_calls = <<>>
     /\ fed = size(input.stream) =>
          /\ visitor_calls = << OnCapsule(input.capsules[1]) >>
          /\ last.calls_before = 0 /\ last.delivered = 1
          /\ buffered_data_ = <<>>

\* The twelve bytes of CloseWebTransportSession{42, "hello"} were fed one per
\* call and the twelfth call delivered the capsule.
C22_Witness ==
  /\ input.serialized /\ hist.byte_at_a_time /\ CleanRun
  /\ input.capsules = << CloseWebTransportSession(<<0, 42>>, Hello) >>
  /\ fed = 12 /\ LastIsIngest /\ last.fragment_size = 1
  /\ visitor_calls = << OnCapsule(input.capsules[1]) >>

\* The capsules a delivered capsule is compared with: every capsule of the
\* inputs, and capsules that differ from one of those in one field only.
ComparedCapsules ==
  KnownCapsules \cup UnknownCapsules \cup PairCapsules
  \cup { CloseWebTransportSession(<<0, 42>>, Abc),
         CloseWebTransportSession(<<0, 43>>, Hello),
         CloseWebTransportSession(<<1, 42>>, Hello),
         LegacyDatagram(<<>>), LegacyDatagram(Bytes(<<1>>)),
         LegacyDatagramWithoutContext(Abc),
         Unknown(U64(23), Bytes(<<1>>)), Unknown(U64(24), Abc),
         AddressRequest(<<P2>>), AddressRequest(<<P2, P1>>),
         AddressRequest(<<P1, P2, P3>>),
         AddressRequest(<< [P1 EXCEPT !.request_id = U64(1)] >>),
         AddressRequest(<< [P1 EXCEPT !.ip_prefix.prefix_length = 31] >>),
         AddressRequest(<< [P1 EXCEPT !.ip_prefix.address = V4b] >>),
         AddressAssign(<<P1>>), AddressAssign(<<P2, P2>>),
         RouteAdvertisement(<<R1, R3>>),
         RouteAdvertisement(<< [R1 EXCEPT !.ip_protocol = 6] >>),
         RouteAdvertisement(<< [R1 EXCEPT !.end_ip_address = V4a] >>),
         RouteAdvertisement(<< [R1 EXCEPT !.start_ip_address = V4b] >>) }

\* C23: capsule equality. Two capsules are equal exactly when they have the
\* same type and their variant's fields are equal field by field (unknown
\* capsules: the same type code and the same data); capsules of different
\* types are never equal, Datagram(p) and LegacyDatagram(p) included; equality
\* is reflexive and symmetric. Stated of every capsule the parser delivered,
\* compared with every capsule of ComparedCapsules.
C23_Equality ==
  \A i \in 1..Len(Delivered) :
    \E c \in { Delivered[i] } :
      /\ CapsuleEquals(c, c)
      /\ \A d \in ComparedCapsules :
           /\ CapsuleEquals(c, d) <=> c = d
           /\ CapsuleEquals(d, c) <=> CapsuleEquals(c, d)
           /\ c.capsule_type # d.capsule_type => ~CapsuleEquals(c, d)
      /\ c.capsule_type = DATAGRAM =>
           ~CapsuleEquals(c, LegacyDatagram(c.http_datagram_payload))
      /\ c.capsule_type \notin KnownTypes =>
           /\ CapsuleEquals(c, Unknown(c.capsule_type, c.unknown_capsule_data))
           /\ ~CapsuleEquals(c, Unknown(U64(24), c.unknown_capsule_data))

\* The parser delivered CloseWebTransportSession{42, "hello"}: it equals the
\* capsule that was serialized and differs from the one with another message.
C23_Witness ==
  /\ input.serialized /\ Len(input.capsules) = 1
  /\ Delivered = << CloseWebTransportSession(<<0, 42>>, Hello) >>
  /\ CapsuleEquals(Delivered[1], input.capsules[1])
  /\ ~CapsuleEquals(Delivered[1], CloseWebTransportSession(<<0, 42>>, Abc))
  /\ ~CapsuleEquals(Delivered[1], Unknown(U64(23), Abc))

\* The capsule carries a value that is written as a varint and is 2^62 or
\* more: its type, or the request id of one of its elements.
HasVarintOverflow(c) ==
  \/ c.capsule_type[1] >= 64
  \/ /\ c.capsule_type = ADDRESS_REQUEST
     /\ \E i \in DOMAIN c.requested_addresses :
          c.requested_addresses[i].request_id[1] >= 64
  \/ /\ c.capsule_type = ADDRESS_ASSIGN
     /\ \E i \in DOMAIN c.assigned_addresses :
          c.assigned_addresses[i].request_id[1] >= 64

\* C24: serialization failure. For a capsule with a type code or a request id
\* of 2^62 or more SerializeCapsuleWithStatus returns an error and no buffer
\* and SerializeCapsule returns an empty buffer; for every capsule that
\* SerializeCapsuleWithStatus serializes, SerializeCapsule returns the same
\* bytes. Stated of the capsules the caller serialized into the input.
C24_SerializationFailure ==
  /\ \A i \in 1..Len(input.capsules) :
       \E c \in { input.capsules[i] } :
         \E r \in { SerializeCapsuleWithStatus(c) } :
           /\ HasVarintOverflow(c) =>
                ~r.ok /\ r.buffer = <<>> /\ SerializeCapsule(c) = <<>>
           /\ r.ok => SerializeCapsule(c) = r.buffer /\ size(r.buffer) >= 2
           /\ r.ok <=> ~HasVarintOverflow(c)
  /\ (Len(input.capsules) = 1 /\ HasVarintOverflow(input.capsules[1])) =>
       input.stream = <<>> /\ visitor_calls = <<>>

\* The caller serialized an unknown capsule of type 2^62, got no bytes, and
\* fed them.
C24_Witness ==
  /\ input.capsules = << Unknown(<<64, 0, 0, 0, 0, 0, 0, 0>>, Abc) >>
  /\ ~SerializeCapsuleWithStatus(input.capsules[1]).ok
  /\ input.stream = <<>> /\ LastIsIngest /\ last.result

\* C25: delivery before failure. When the buffer of one ingest call holds k
\* well-formed complete capsules followed by a complete malformed capsule, the
\* visitor receives OnCapsule for the k capsules in order, then exactly one
\* OnCapsuleParseFailure, and the call returns false; OnCapsuleParseFailure is
\* always the last callback the parser ever makes.
C25_DeliveryBeforeFailure ==
  /\ \A i \in 1..Len(visitor_calls) :
       IsFailureCall(visitor_calls[i]) => i = Len(visitor_calls)
  /\ parsing_error_occurred_ <=>
       (visitor_calls # <<>> /\ IsFailureCall(visitor_calls[Len(visitor_calls)]))
  /\ \A c \in MalformedCases :
       input.stream = c.stream =>
         /\ (WholeStreamInOneIngest /\ ~last.rejected) =>
              /\ ~last.result
              /\ last.delivered = Len(c.before)
              /\ Len(visitor_calls) = Len(c.before) + 1
         /\ (CleanRun /\ parsing_error_occurred_) =>
              /\ Delivered = c.before
              /\ Len(Failures) = 1
              /\ IsPrefixOf([i \in 1..Len(c.before) |-> OnCapsule(c.before[i])],
                            visitor_calls)

\* Two capsules, a malformed CLOSE_WEBTRANSPORT_SESSION and a datagram came
\* in one ingest call: two OnCapsule calls, one failure, and false.
C25_Witness ==
  /\ input.stream =
       MalformedAfterGood(<< Datagram(Abc), Unknown(U64(64), Bytes(<<1>>)) >>,
         RawCapsule(CLOSE_WEBTRANSPORT_SESSION, Bytes(<<0, 42>>)),
         SerializeCapsule(Datagram(<<>>))).stream
  /\ WholeStreamInOneIngest /\ ~last.result
  /\ visitor_calls = << OnCapsule(Datagram(Abc)),
                        OnCapsule(Unknown(U64(64), Bytes(<<1>>))),
                        OnCapsuleParseFailure(
                          "Unable to parse capsule CLOSE_WEBTRANSPORT_SESSION error code") >>

ListTypes == { ADDRESS_REQUEST, ADDRESS_ASSIGN, ROUTE_ADVERTISEMENT }

\* The streams whose malformed capsule is of one of the three list types.
PartialCapsuleCases ==
  TruncatedElementCases
  \cup { [before |-> c.before, stream |-> c.stream] : c \in BadFamilyCases }
  \cup { [before |-> <<>>, stream |-> c.stream] :
           c \in InvalidPrefixLengthCases }

\* C26: no partial capsule. OnCapsule is never invoked for an ADDRESS_REQUEST,
\* ADDRESS_ASSIGN or ROUTE_ADVERTISEMENT capsule with a malformed or truncated
\* element: the elements parsed before it are discarded with the capsule, and
\* bytes at the end of the payload that are not a whole element make the
\* capsule fail.
C26_NoPartialCapsule ==
  \A c \in PartialCapsuleCases :
    input.stream = c.stream =>
      /\ IsPrefixOf(Delivered, c.before)
      /\ (CleanRun /\ fed = size(input.stream)) =>
           /\ parsing_error_occurred_
           /\ Delivered = c.before
           /\ Len(Failures) = 1
           /\ c \in TruncatedElementCases => Failures[1] \in ShortReadMessages

\* A ROUTE_ADVERTISEMENT with one whole range and a lone family byte was
\* fed whole: nothing was delivered and the parser failed.
C26_Witness ==
  /\ input.stream =
       RawCapsule(ROUTE_ADVERTISEMENT,
                  StrAppend(WireIpAddressRange(R1).bytes, Bytes(<<4>>)))
  /\ CleanRun /\ fed = size(input.stream)
  /\ visitor_calls = << OnCapsuleParseFailure(
         "Unable to read capsule ROUTE_ADVERTISEMENT start address") >>

\* A PrefixWithId as the data model has it: an address of 4 or 16 bytes and
\* a prefix length of at most 32 or 128.
ValidPrefixWithId(p) ==
  \/ /\ IsIPv4(p.ip_prefix.address)
     /\ size(ToPackedString(p.ip_prefix.address)) = 4
     /\ p.ip_prefix.prefix_length \in 0..32
  \/ /\ IsIPv6(p.ip_prefix.address)
     /\ size(ToPackedString(p.ip_prefix.address)) = 16
     /\ p.ip_prefix.prefix_length \in 0..128

\* An IpAddressRange as the data model has it: start and end of one family.
ValidIpAddressRange(r) ==
  \/ /\ IsIPv4(r.start_ip_address) /\ IsIPv4(r.end_ip_address)
     /\ size(ToPackedString(r.start_ip_address)) = 4
     /\ size(ToPackedString(r.end_ip_address)) = 4
  \/ /\ IsIPv6(r.start_ip_address) /\ IsIPv6(r.end_ip_address)
     /\ size(ToPackedString(r.start_ip_address)) = 16
     /\ size(ToPackedString(r.end_ip_address)) = 16

\* C27: the parser's output respects the invariants of the data model. Every
\* PrefixWithId of a delivered capsule has an address of 4 or 16 bytes and a
\* prefix length of at most 32 or 128 respectively; every IpAddressRange of a
\* delivered capsule has a start and an end address of the same family.
C27_DataModelInvariants ==
  \A i \in 1..Len(Delivered) :
    \E c \in { Delivered[i] } :
      /\ c.capsule_type = ADDRESS_REQUEST =>
           \A k \in DOMAIN c.requested_addresses :
             ValidPrefixWithId(c.requested_addresses[k])
      /\ c.capsule_type = ADDRESS_ASSIGN =>
           \A k \in DOMAIN c.assigned_addresses :
             ValidPrefixWithId(c.assigned_addresses[k])
      /\ c.capsule_type = ROUTE_ADVERTISEMENT =>
           \A k \in DOMAIN c.ip_address_ranges :
             ValidIpAddressRange(c.ip_address_ranges[k])

\* The parser delivered an ADDRESS_ASSIGN with an IPv6 prefix of length 0 and
\* an IPv4 prefix of length 24.
C27_Witness ==
  /\ Delivered = << AddressAssign(<<P4, P5>>) >>
  /\ ValidPrefixWithId(Delivered[1].assigned_addresses[1])
  /\ ValidPrefixWithId(Delivered[1].assigned_addresses[2])
  /\ LastIsIngest /\ last.delivered = 1

\* The number of bytes, header and payload, of the capsule at the front of
\* b; -1 when b does not begin with a whole capsule.
WireLength(b) ==
  Let(ReadVarInt62(QuicheDataReader(b)), LAMBDA t :
  Let(ReadVarInt62(t.reader), LAMBDA n :
  IF ~t.ok \/ ~n.ok THEN -1
  ELSE IF ~FitsInt(n.value) THEN -1
  ELSE IF n.reader.pos + ToInt(n.value) > size(b) THEN -1
  ELSE n.reader.pos + ToInt(n.value)))

\* The capsule c is the one whose wire bytes are the first w bytes of b: the
\* type is the one written there, and the payload of a datagram or unknown
\* capsule and the message of a CLOSE_WEBTRANSPORT_SESSION are the bytes that
\* lie there.
SliceMatches(c, b, w) ==
  \E t \in { ReadVarInt62(QuicheDataReader(b)) } :
    \E n \in { ReadVarInt62(t.reader) } :
      /\ t.value = c.capsule_type
      /\ c.capsule_type \notin StructuredTypes =>
           c = RawBytesCapsule(t.value,
                               substr(b, n.reader.pos, w - n.reader.pos))
      /\ c.capsule_type = CLOSE_WEBTRANSPORT_SESSION =>
           c.error_message = substr(b, n.reader.pos + 4, w - n.reader.pos - 4)

\* Walks the buffer b as it is while OnCapsule runs for each capsule of caps
\* in turn, the first `accepted` of which the visitor accepts: whether the
\* buffer begins with the whole wire form of the capsule each time, the
\* bytes to erase for the accepted ones, and the buffer after that.
RECURSIVE SlicesIn(_, _, _)
SlicesIn(b, caps, accepted) ==
  IF caps = <<>> THEN [ok |-> TRUE, rest |-> b, erased |-> 0]
  ELSE Let(WireLength(b), LAMBDA w :
       IF w < 0 THEN [ok |-> FALSE, rest |-> b, erased |-> 0]
       ELSE IF ~SliceMatches(caps[1], b, w)
       THEN [ok |-> FALSE, rest |-> b, erased |-> 0]
       ELSE IF accepted = 0
       THEN [ok |-> Len(caps) = 1, rest |-> b, erased |-> 0]
       ELSE Let(SlicesIn(erase(b, w), Tail(caps), accepted - 1), LAMBDA s :
                [ok |-> s.ok, rest |-> s.rest, erased |-> s.erased + w]))

C28_Step ==
  (last'.op = "IngestCapsuleFragment" /\ ~last'.failed_before) =>
    \E s \in { SlicesIn(StrAppend(buffered_data_,
                                   substr(input.stream, fed, fed' - fed)),
                         SubSeq(Delivered', Len(Delivered) + 1, Len(Delivered')),
                         Len(Delivered') - Len(Delivered)
                           - (IF last'.rejected THEN 1 ELSE 0)) } :
      /\ s.ok
      /\ hist'.erased = hist.erased + s.erased
      /\ last'.result => buffered_data_' = s.rest

\* C28: validity of the slices during the callback. While OnCapsule runs the
\* buffer is as the call's append left it, less the capsules delivered and
\* accepted before, and begins with the whole wire form of the capsule;
\* bytes are erased only for a capsule the visitor accepted, and exactly its
\* header and payload.
C28_SliceValidity == [][C28_Step]_vars

\* One ingest call delivered three capsules and erased their ten bytes.
C28_Witness ==
  /\ input.capsules = << Datagram(Abc), Datagram(<<>>),
                         Unknown(U64(23), Bytes(<<1>>)) >>
  /\ WholeStreamInOneIngest /\ last.result
  /\ last.delivered = 3 /\ hist.erased = 10 /\ buffered_data_ = <<>>

\* The number of bytes the first k capsules of the stream b take on the
\* wire.
RECURSIVE WireLengthOfFirst(_, _)
WireLengthOfFirst(b, k) ==
  IF k = 0 THEN 0
  ELSE Let(WireLength(b), LAMBDA w :
           IF w < 0 THEN -1
           ELSE Let(WireLengthOfFirst(erase(b, w), k - 1), LAMBDA rest :
                    IF rest < 0 THEN -1 ELSE w + rest))

RECURSIVE SerializedLength(_)
SerializedLength(capsules) ==
  IF capsules = <<>> THEN 0
  ELSE size(SerializeCapsule(capsules[1])) + SerializedLength(Tail(capsules))

\* C29: byte accounting. While the parser is OK and no call is in progress,
\* the buffer is the bytes ingested so far less the wire bytes of the
\* capsules delivered, which are the first bytes ingested: the bytes ingested
\* number the wire lengths of the delivered capsules plus the buffer length.
C29_ByteAccounting ==
  ~parsing_error_occurred_ =>
    \E w \in { WireLengthOfFirst(input.stream, Len(Delivered)) } :
      /\ w >= 0
      /\ fed = w + size(buffered_data_)
      /\ buffered_data_ = substr(input.stream, w, fed - w)
      /\ hist.erased = w
      /\ input.serialized => w = SerializedLength(Delivered)

\* A datagram and a lone byte were ingested: five bytes delivered, one
\* buffered.
C29_Witness ==
  /\ input.stream = Bytes(<<0, 3, 97, 98, 99, 64>>)
  /\ ~parsing_error_occurred_ /\ fed = 6
  /\ Delivered = << Datagram(Abc) >>
  /\ buffered_data_ = Bytes(<<64>>)

\* C30: maximal drain. Whenever an ingest call returns true, what is left in
\* the buffer does not begin with a complete capsule; so
\* ErrorIfThereIsRemainingBufferedData never fails while a capsule that could
\* be delivered is still buffered.
C30_MaximalDrain ==
  /\ (LastIsIngest /\ last.result) => WireLength(buffered_data_) < 0
  /\ ~parsing_error_occurred_ => WireLength(buffered_data_) < 0
  /\ (LastIsEndOfStream /\ ~last.failed_before /\ parsing_error_occurred_) =>
       /\ buffered_data_ # <<>>
       /\ WireLength(buffered_data_) < 0
       /\ CapsuleIncomplete(buffered_data_)

\* A datagram, another one and a lone byte came in one call that returned
\* true: the two were delivered and the byte is what is left.
C30_Witness ==
  /\ input.stream = Bytes(<<0, 3, 97, 98, 99, 0, 0, 64>>)
  /\ WholeStreamInOneIngest /\ last.result /\ last.delivered = 2
  /\ buffered_data_ = Bytes(<<64>>)
  /\ WireLength(buffered_data_) < 0

C31_Step ==
  (last'.op = "IngestCapsuleFragment" /\ ~last'.failed_before) =>
    /\ last'.appended = size(buffered_data_) + last'.fragment_size
    /\ 2 * last'.delivered <= last'.appended
    /\ hist'.erased - hist.erased >=
         2 * (last'.delivered - (IF last'.rejected THEN 1 ELSE 0))
    /\ hist'.erased - hist.erased <= last'.appended
    /\ Len(visitor_calls') - Len(visitor_calls) <= last'.delivered + 1

\* C31: termination of ingest. Every iteration of the loop of an ingest call
\* either ends the loop or erases at least 2 bytes of the buffer, a type byte
\* and a length byte at least, so the call ends; the OnCapsule calls of one
\* ingest call number at most half the bytes the buffer holds when the loop
\* starts.
C31_Termination == [][C31_Step]_vars

\* Two empty datagrams, four bytes, came in one call: two OnCapsule calls.
C31_Witness ==
  /\ input.capsules = << Datagram(<<>>), Datagram(<<>>) >>
  /\ WholeStreamInOneIngest
  /\ last.appended = 4 /\ last.delivered = 2 /\ hist.erased = 4

\* C32: the internal assertions hold. Under any sequence of ingest and
\* end-of-stream calls ReportParseFailure is never entered with
\* parsing_error_occurred_ already true, AttemptParseCapsule is never entered
\* with it true, and an attempt that sets the error returns 0; so the parser
\* reports at most one failure.
C32_InternalAssertions ==
  /\ ~hist.bug
  /\ Len(Failures) <= 1
  /\ parsing_error_occurred_ <=> Len(Failures) = 1

\* The parser failed, and an ingest call was made on the failed parser.
C32_Witness ==
  /\ parsing_error_occurred_ /\ hist.late = 1
  /\ LastIsIngest /\ last.failed_before /\ ~last.result
  /\ Len(Failures) = 1 /\ ~hist.bug

\* The failures reported when an address cannot be built from the bytes read
\* for it.
UnparsableAddressMessages ==
  { "Unable to parse capsule ADDRESS_REQUEST address",
    "Unable to parse capsule ADDRESS_ASSIGN address",
    "Unable to parse capsule ROUTE_ADVERTISEMENT start address",
    "Unable to parse capsule ROUTE_ADVERTISEMENT end address" }

\* The failures reported when the payload ends inside an address.
TruncatedAddressMessages ==
  { "Unable to read capsule ADDRESS_REQUEST address",
    "Unable to read capsule ADDRESS_ASSIGN address",
    "Unable to read capsule ROUTE_ADVERTISEMENT start address",
    "Unable to read capsule ROUTE_ADVERTISEMENT end address" }

\* The streams whose capsule ends inside an address, with the failure each
\* is to report.
TruncatedAddressCases ==
  { [stream |-> RawCapsule(ADDRESS_REQUEST, Bytes(<<1, 6, 0, 0, 0>>)),
     message |-> "Unable to read capsule ADDRESS_REQUEST address"],
    [stream |-> RawCapsule(ADDRESS_ASSIGN,
                  StrAppend(WirePrefixWithId(P4).bytes,
                  StrAppend(WirePrefixWithId(P5).bytes, Bytes(<<3, 4, 10>>)))),
     message |-> "Unable to read capsule ADDRESS_ASSIGN address"],
    [stream |-> RawCapsule(ROUTE_ADVERTISEMENT,
                  StrAppend(WireIpAddressRange(R1).bytes, Bytes(<<4>>))),
     message |-> "Unable to read capsule ROUTE_ADVERTISEMENT start address"],
    [stream |-> RawCapsule(ROUTE_ADVERTISEMENT,
                  StrAppend(WireIpAddressRange(R2).bytes,
                  StrAppend(Bytes(<<6>>), Run(0, 19)))),
     message |-> "Unable to read capsule ROUTE_ADVERTISEMENT end address"],
    [stream |-> Bytes(<<192, 0, 0, 0, 158, 202, 106, 2, 6, 4, 10, 0, 0, 1, 10>>),
     message |-> "Unable to read capsule ROUTE_ADVERTISEMENT end address"] }

\* C33: unreachable address-parse failures. With an address built from 4 or
\* from 16 packed bytes and from no other number, no input makes the parser
\* report "Unable to parse capsule ... address"; a payload that ends inside an
\* address is reported as "Unable to read capsule ... address".
C33_UnreachableAddressFailures ==
  /\ \A i \in DOMAIN Failures : Failures[i] \notin UnparsableAddressMessages
  /\ \A c \in TruncatedAddressCases :
       (input.stream = c.stream /\ CleanRun /\ fed = size(input.stream)) =>
         Failures = << c.message >>

\* An ADDRESS_REQUEST with 3 of the 16 bytes of an IPv6 address was fed
\* whole and reported as a short read.
C33_Witness ==
  /\ input.stream = RawCapsule(ADDRESS_REQUEST, Bytes(<<1, 6, 0, 0, 0>>))
  /\ CleanRun /\ fed = size(input.stream)
  /\ Failures = << "Unable to read capsule ADDRESS_REQUEST address" >>
  /\ Failures[1] \in TruncatedAddressMessages

\* C34: copy assignment preserves values. For all capsules a and b, after
\* a = b the capsule a equals the value b had and b is unchanged, also when a
\* and b are the same object; a copy-constructed capsule equals its source.
\* Stated with b every capsule the parser delivered and a every capsule of
\* ComparedCapsules.
C34_CopyAssignment ==
  \A i \in 1..Len(Delivered) :
    \E b \in { Delivered[i] } :
      /\ \A a \in ComparedCapsules :
           \E r \in { CapsuleAssign(a, b, FALSE) } :
             /\ CapsuleEquals(r.this, b) /\ r.this = b
             /\ r.other = b
      /\ CapsuleCopy(b) = b
      /\ \E r \in { CapsuleAssign(b, b, TRUE) } :
           /\ CapsuleEquals(r.this, b)
           /\ r.this.capsule_type = b.capsule_type

\* The parser delivered Datagram("abc"); assigned to another capsule it is
\* copied, assigned to itself it becomes the unknown capsule of type 0x17
\* with no data.
C34_Witness ==
  /\ Delivered = << Datagram(Abc) >>
  /\ CapsuleAssign(Datagram(<<>>), Delivered[1], FALSE).this = Datagram(Abc)
  /\ CapsuleAssign(Delivered[1], Delivered[1], TRUE).this
       = Unknown(U64(23), <<>>)

\* The call a step has just made on the cache.
LastCacheCall == cache_calls[Len(cache_calls)]

C35_Step ==
  cache_calls' # <<>> =>
    \E c \in { cache_calls'[Len(cache_calls')] } :
      /\ (c.op = "Insert" /\ ~c.had_entry) =>
           /\ c.server_id \in DOMAIN cache_entries_'
           /\ cache_entries_'[c.server_id] = c.session
      /\ c.op = "Lookup" =>
           /\ c.server_id \notin DOMAIN cache_entries_'
           /\ c.server_id \in DOMAIN cache_entries_ =>
                c.session = cache_entries_[c.server_id] /\ c.session # 0
           /\ c.server_id \notin DOMAIN cache_entries_ =>
                c.session = 0 /\ cache_entries_' = cache_entries_
           /\ \A s \in ServerIds \ {c.server_id} :
                /\ s \in DOMAIN cache_entries_' <=> s \in DOMAIN cache_entries_
                /\ s \in DOMAIN cache_entries_ =>
                     cache_entries_'[s] = cache_entries_[s]
      /\ (Len(cache_calls') = 2 /\ c.op = "Lookup"
          /\ cache_calls'[1].server_id = c.server_id) =>
           /\ cache_calls'[1].op = "Lookup" => c.session = 0
           /\ (cache_calls'[1].op = "Insert" /\ ~cache_calls'[1].had_entry) =>
                c.session = cache_calls'[1].session

\* C35: lookups of SimpleSessionCache consume entries. After Insert(s,
\* session) on a cache without entry for s, the first Lookup(s) returns a state
\* with that session and removes the entry, so a Lookup(s) right after it
\* returns null; Lookup of a server id without entry returns null and leaves
\* the cache as it is; Lookup(s) neither removes nor alters the entry of
\* another server id.
C35_LookupConsumes == [][C35_Step]_vars

\* Server 1 was looked up twice in a row while server 2 has an entry: the
\* second lookup returned null and the entry of server 2 is there.
C35_Witness ==
  /\ Len(cache_calls) = 2
  /\ cache_calls[1] = [op |-> "Lookup", server_id |-> 1, session |-> 2,
                       had_entry |-> TRUE]
  /\ LastCacheCall = [op |-> "Lookup", server_id |-> 1, session |-> 0,
                      had_entry |-> FALSE]
  /\ DOMAIN cache_entries_ = {2} /\ cache_entries_[2] = 1

====
